---- MODULE Spec2Model ----
(***************************************************************************)
(* Data-access layer of the Movies app: the time-boxed cache               *)
(* (CacheService), the retrying HTTP client (tmdb response interceptor)    *)
(* and the Query Functions of src/api/tmdb.ts.                             *)
(*                                                                         *)
(* JavaScript strings are sequences of one-character strings, so that key  *)
(* prefixes, Number#toString, parseInt and JSON.stringify / JSON.parse are *)
(* computed character by character.                                        *)
(***************************************************************************)
EXTENDS Integers, Sequences, FiniteSets, TLC

VARIABLES
    now,      \* Date.now(), in milliseconds
    store,    \* AsyncStorage: function from the keys present to their string values
    entry,    \* per logical cache key: the CacheEntry of the last completed set (history variable)
    ret,      \* the last CacheService operation completed at the present instant, and its result
    reqs,     \* per logical request of the tmdb client: the RetryConfig and the promise state
    calls,    \* per Query Function call: its position and its result
    tasks,    \* per SearchHistoryService call in progress: the await it is suspended at
    hret,     \* the last SearchHistoryService call completed, and its result
    added,    \* the queries of the addToHistory calls completed so far (history variable)
    screen,   \* the state of the screen component in use, and what its handlers have done
    log       \* the lines written with console.error, in order

\* The state of the SearchHistoryService callers
historyVars == <<tasks, hret, added>>

\* The state of the screens and the console
screenVars == <<screen, log>>

vars == <<now, store, entry, ret, reqs, calls, historyVars, screenVars>>

----------------------------------------------------------------------------
(* Bounds of the model *)

StartTime == 100000000          \* the clock value of the initial state
MaxTicks == 2           \* the cache clock stops StartTime + MaxTicks
MaxId == 1              \* movie ids 1 .. MaxId
NumReqs == 1            \* logical requests of the tmdb client in flight together
NumCalls == 1           \* calls of the Query Function made one after another
NumTasks == 2           \* SearchHistoryService calls in progress together
NumInserts == 12        \* distinct queries added one after another
NumLoads == 2           \* loads of MoviesScreen in flight together
NumPages == 2           \* total_pages of the results
MaxLog == 1             \* console.error lines written by a screen
MaxPresses == 4         \* presses of the favorite button of the detail screen

----------------------------------------------------------------------------
(* JavaScript values *)

\* A JSON value (or undefined), as a record of one shape for all kinds.
JNull == [t |-> "null", n |-> 0, s |-> <<>>]
Undefined == [t |-> "undefined", n |-> 0, s |-> <<>>]
JBool(b) == [t |-> "bool", n |-> IF b THEN 1 ELSE 0, s |-> <<>>]
JNum(n) == [t |-> "num", n |-> n, s |-> <<>>]
JStr(s) == [t |-> "str", n |-> 0, s |-> s]
\* An opaque response body {"id": n}
JObj(n) == [t |-> "obj", n |-> n, s |-> <<>>]
\* The array [n]
JArr(n) == [t |-> "arr", n |-> n, s |-> <<>>]
\* A genre-list response body {"genres": [n]}
JGenres(n) == [t |-> "genres", n |-> n, s |-> <<>>]

\* if (cached): null, undefined, false, 0 and "" are falsy
Truthy(v) ==
    CASE v.t = "null" -> FALSE
      [] v.t = "undefined" -> FALSE
      [] v.t = "bool" -> v.n = 1
      [] v.t = "num" -> v.n # 0
      [] v.t = "str" -> v.s # <<>>
      [] OTHER -> TRUE

\* AsyncStorage's null (no such key); no string of the program equals it
Null == <<"<null>">>

\* !s on a string-or-null
StrTruthy(s) == s # Null /\ s # <<>>

Digits == <<"0", "1", "2", "3", "4", "5", "6", "7", "8", "9">>

IsDigit(c) == \E i \in 1..10 : Digits[i] = c

DigitVal(c) == (CHOOSE i \in 1..10 : Digits[i] = c) - 1

\* Number.prototype.toString of a non-negative integer below 1e21
RECURSIVE NumberToString(_)
NumberToString(n) ==
    IF n < 10 THEN <<Digits[n + 1]>>
    ELSE NumberToString(n \div 10) \o <<Digits[(n % 10) + 1]>>

\* The value of the longest run of digits of s that starts at position i
RECURSIVE DigitRun(_, _, _)
DigitRun(s, i, acc) ==
    IF i <= Len(s) /\ IsDigit(s[i]) THEN DigitRun(s, i + 1, acc * 10 + DigitVal(s[i]))
    ELSE [val |-> acc, next |-> i]

\* parseInt(s, 10): NaN unless s starts with a digit (the strings here carry
\* neither white space nor a sign)
ParseInt(s) ==
    IF Len(s) >= 1 /\ IsDigit(s[1])
    THEN [nan |-> FALSE, val |-> DigitRun(s, 1, 0).val]
    ELSE [nan |-> TRUE, val |-> 0]

\* a > b on numbers, false when either is NaN
Gt(a, b) == ~a.nan /\ ~b.nan /\ a.val > b.val

\* a < b on numbers, false when either is NaN
Lt(a, b) == ~a.nan /\ ~b.nan /\ a.val < b.val

Num(n) == [nan |-> FALSE, val |-> n]

StartsWith(s, p) == Len(s) >= Len(p) /\ SubSeq(s, 1, Len(p)) = p

\* A SearchHistoryService call slot with no call in progress
NoTask ==
    [pc |-> "idle", op |-> "none", arg |-> <<>>, limit |-> 0, readFailed |-> FALSE,
     blob |-> <<>>]

NoHRet ==
    [op |-> "none", arg |-> <<>>, limit |-> 0, items |-> <<>>, strings |-> <<>>,
     threw |-> FALSE, failed |-> FALSE, wrote |-> FALSE, changed |-> FALSE,
     before |-> <<>>, after |-> <<>>]

NoAdded == [qs |-> <<>>, clean |-> TRUE]

\* No screen is mounted
NoScreen == [name |-> "none"]

\* No screen is in use and nothing is logged
ScreenUnused ==
    /\ screen = NoScreen
    /\ log = <<>>

\* No SearchHistoryService call is made
HistoryUnused ==
    /\ tasks = <<>>
    /\ hret = NoHRet
    /\ added = NoAdded

----------------------------------------------------------------------------
(* JSON.stringify and JSON.parse *)

Quote == "\""

LitNull == <<"n", "u", "l", "l">>
LitTrue == <<"t", "r", "u", "e">>
LitFalse == <<"f", "a", "l", "s", "e">>
IdMember == <<"{", Quote, "i", "d", Quote, ":">>
DataMember == <<Quote, "d", "a", "t", "a", Quote, ":">>
GenresMember == <<"{", Quote, "g", "e", "n", "r", "e", "s", Quote, ":", "[">>
TimestampMember == <<Quote, "t", "i", "m", "e", "s", "t", "a", "m", "p", Quote, ":">>

\* JSON.stringify of a value (the strings here need no escaping)
JsonStringify(v) ==
    CASE v.t = "null" -> LitNull
      [] v.t = "bool" -> IF v.n = 1 THEN LitTrue ELSE LitFalse
      [] v.t = "num" -> NumberToString(v.n)
      [] v.t = "str" -> <<Quote>> \o v.s \o <<Quote>>
      [] v.t = "obj" -> IdMember \o NumberToString(v.n) \o <<"}">>
      [] v.t = "arr" -> <<"[">> \o NumberToString(v.n) \o <<"]">>
      [] v.t = "genres" -> GenresMember \o NumberToString(v.n) \o <<"]", "}">>

\* JSON.stringify({ data, timestamp }): a member whose value is undefined is left out
StringifyCacheItem(data, timestamp) ==
    <<"{">>
    \o (IF data.t = "undefined" THEN <<>> ELSE DataMember \o JsonStringify(data) \o <<",">>)
    \o TimestampMember \o NumberToString(timestamp) \o <<"}">>

\* s has the literal lit at position i
HasAt(s, i, lit) == i + Len(lit) - 1 <= Len(s) /\ SubSeq(s, i, i + Len(lit) - 1) = lit

\* The position of the first Quote of s at or after i (Len(s) + 1 when there is none)
RECURSIVE FindQuote(_, _)
FindQuote(s, i) ==
    IF i > Len(s) \/ s[i] = Quote THEN i ELSE FindQuote(s, i + 1)

Bad == [ok |-> FALSE, v |-> Undefined, next |-> 0]

\* The JSON value of s that starts at position i, and the position after it
ParseValue(s, i) ==
    CASE HasAt(s, i, LitNull) -> [ok |-> TRUE, v |-> JNull, next |-> i + 4]
      [] HasAt(s, i, LitTrue) -> [ok |-> TRUE, v |-> JBool(TRUE), next |-> i + 4]
      [] HasAt(s, i, LitFalse) -> [ok |-> TRUE, v |-> JBool(FALSE), next |-> i + 5]
      [] i <= Len(s) /\ IsDigit(s[i]) ->
            LET r == DigitRun(s, i, 0) IN [ok |-> TRUE, v |-> JNum(r.val), next |-> r.next]
      [] i <= Len(s) /\ s[i] = Quote ->
            LET j == FindQuote(s, i + 1) IN
            IF j > Len(s) THEN Bad
            ELSE [ok |-> TRUE, v |-> JStr(SubSeq(s, i + 1, j - 1)), next |-> j + 1]
      [] HasAt(s, i, IdMember) ->
            LET r == DigitRun(s, i + Len(IdMember), 0) IN
            IF r.next > i + Len(IdMember) /\ HasAt(s, r.next, <<"}">>)
            THEN [ok |-> TRUE, v |-> JObj(r.val), next |-> r.next + 1]
            ELSE Bad
      [] HasAt(s, i, <<"[">>) ->
            LET r == DigitRun(s, i + 1, 0) IN
            IF r.next > i + 1 /\ HasAt(s, r.next, <<"]">>)
            THEN [ok |-> TRUE, v |-> JArr(r.val), next |-> r.next + 1]
            ELSE Bad
      [] HasAt(s, i, GenresMember) ->
            LET r == DigitRun(s, i + Len(GenresMember), 0) IN
            IF r.next > i + Len(GenresMember) /\ HasAt(s, r.next, <<"]", "}">>)
            THEN [ok |-> TRUE, v |-> JGenres(r.val), next |-> r.next + 2]
            ELSE Bad
      [] OTHER -> Bad

\* JSON.parse of a CacheItem text, then .data: ok is FALSE where JSON.parse throws
ParseCacheItemData(s) ==
    IF ~HasAt(s, 1, <<"{">>) THEN Bad
    ELSE
        LET d == IF HasAt(s, 2, DataMember)
                 THEN ParseValue(s, 2 + Len(DataMember))
                 ELSE [ok |-> TRUE, v |-> Undefined, next |-> 2]
            t == IF d.ok /\ d.v.t # "undefined"
                 THEN (IF HasAt(s, d.next, <<",">>) THEN d.next + 1 ELSE 0)
                 ELSE d.next
        IN
        IF ~d.ok \/ t = 0 \/ ~HasAt(s, t, TimestampMember) THEN Bad
        ELSE
            LET n == DigitRun(s, t + Len(TimestampMember), 0) IN
            IF n.next > t + Len(TimestampMember) /\ n.next = Len(s) /\ s[n.next] = "}"
            THEN [ok |-> TRUE, v |-> d.v, next |-> n.next + 1]
            ELSE Bad

----------------------------------------------------------------------------
(* AsyncStorage *)

GetItem(st, k) == IF k \in DOMAIN st THEN st[k] ELSE Null

\* multiSet of two pairs
\* A multiSet that leaves the keys the store already has as they are
MultiSet2_keepExisting(st, k1, v1, k2, v2) ==
    [k \in DOMAIN st \cup {k1, k2} |->
        IF k \in DOMAIN st THEN st[k] ELSE IF k = k2 THEN v2 ELSE v1]

MultiSet2(st, k1, v1, k2, v2) ==
    [k \in DOMAIN st \cup {k1, k2} |->
        IF k = k2 THEN v2 ELSE IF k = k1 THEN v1 ELSE st[k]]

MultiRemove(st, ks) == [k \in DOMAIN st \ ks |-> st[k]]

GetAllKeys(st) == DOMAIN st

\* A setItem that leaves a key that has a value as it is
SetItem_keepExisting(st, k, v) ==
    IF k \in DOMAIN st THEN st ELSE [x \in DOMAIN st \cup {k} |-> IF x = k THEN v ELSE st[x]]

SetItem(st, k, v) == [j \in DOMAIN st \cup {k} |-> IF j = k THEN v ELSE st[j]]

RemoveItem(st, k) == [j \in DOMAIN st \ {k} |-> st[j]]

EmptyStore == [k \in {} |-> <<>>]

SEARCH_HISTORY_KEY == <<"s", "e", "a", "r", "c", "h", "_", "h", "i", "s", "t", "o", "r", "y">>

\* The key of the favorites screen's list
FAVORITES_KEY == <<"f", "a", "v", "o", "r", "i", "t", "e", "s">>

\* A store that holds what the rest of the app keeps in it: an empty search
\* history and an empty list of favorites
AppStore ==
    [k \in {SEARCH_HISTORY_KEY, FAVORITES_KEY} |-> <<"[", "]">>]

----------------------------------------------------------------------------
(* CacheService *)

CACHE_PREFIX == <<"m", "o", "v", "i", "e", "_", "c", "a", "c", "h", "e", "_">>
CACHE_EXPIRY_PREFIX ==
    <<"m", "o", "v", "i", "e", "_", "c", "a", "c", "h", "e", "_", "e", "x", "p", "i", "r", "y", "_">>

CacheKeyOf(key) == CACHE_PREFIX \o key
ExpiryKeyOf(key) == CACHE_EXPIRY_PREFIX \o key

\* A set that stores the duration as the expiry, without adding Date.now()
CacheService_set_noNow(st, key, data, duration, t, fail) ==
    IF fail THEN st
    ELSE MultiSet2(st, CacheKeyOf(key), StringifyCacheItem(data, t),
                       ExpiryKeyOf(key), NumberToString(duration))

\* CacheService.set at time t; fail: AsyncStorage.multiSet rejects (nothing is written)
CacheService_set(st, key, data, duration, t, fail) ==
    LET expiryTime == t + duration IN
    IF fail THEN st
    ELSE MultiSet2(st, CacheKeyOf(key), StringifyCacheItem(data, t),
                       ExpiryKeyOf(key), NumberToString(expiryTime))

\* Date.now() > expiry
Expired(t, expiry) == Gt(Num(t), expiry)

\* A get that renews the expiry marker of the entry it returns
CacheService_get_refreshing(st, key, t, fail) ==
    LET cachedData == GetItem(st, CacheKeyOf(key))
        expiryTime == GetItem(st, ExpiryKeyOf(key))
    IN
    IF ~StrTruthy(cachedData) \/ ~StrTruthy(expiryTime) \/ fail # "none"
    THEN [store |-> st, val |-> JNull, threw |-> fail # "none"]
    ELSE [store |-> [st EXCEPT ![ExpiryKeyOf(key)] = NumberToString(t + 1)],
          val |-> ParseCacheItemData(cachedData).v, threw |-> FALSE]

\* A get that hands out the entry it found expired when its removal fails
CacheService_get_staleOnFailure(st, key, t, fail) ==
    LET cachedData == GetItem(st, CacheKeyOf(key))
        expiryTime == GetItem(st, ExpiryKeyOf(key))
    IN
    IF fail = "read" \/ ~StrTruthy(cachedData) \/ ~StrTruthy(expiryTime)
    THEN [store |-> st, val |-> JNull, threw |-> fail = "read"]
    ELSE IF fail = "remove"
    THEN [store |-> st, val |-> ParseCacheItemData(cachedData).v, threw |-> TRUE]
    ELSE IF Expired(t, ParseInt(expiryTime))
    THEN [store |-> MultiRemove(st, {CacheKeyOf(key), ExpiryKeyOf(key)}),
          val |-> JNull, threw |-> FALSE]
    ELSE [store |-> st, val |-> ParseCacheItemData(cachedData).v, threw |-> FALSE]

\* A get that takes an entry without expiry marker for one that never expires
CacheService_get_dataOnly(st, key, t, fail) ==
    LET cachedData == GetItem(st, CacheKeyOf(key))
        expiryTime == GetItem(st, ExpiryKeyOf(key))
    IN
    IF fail = "read" THEN [store |-> st, val |-> JNull, threw |-> TRUE]
    ELSE IF ~StrTruthy(cachedData)
    THEN [store |-> st, val |-> JNull, threw |-> FALSE]
    ELSE IF StrTruthy(expiryTime) /\ Expired(t, ParseInt(expiryTime))
    THEN IF fail = "remove"
         THEN [store |-> st, val |-> JNull, threw |-> TRUE]
         ELSE [store |-> MultiRemove(st, {CacheKeyOf(key), ExpiryKeyOf(key)}),
               val |-> JNull, threw |-> FALSE]
    ELSE LET parsed == ParseCacheItemData(cachedData) IN
         IF parsed.ok THEN [store |-> st, val |-> parsed.v, threw |-> FALSE]
         ELSE [store |-> st, val |-> JNull, threw |-> TRUE]

\* CacheService.get at time t.  fail names the AsyncStorage call that rejects, if
\* it is made: "read" (multiGet), "remove" (multiRemove) or "none".
CacheService_get(st, key, t, fail) ==
    LET cachedData == GetItem(st, CacheKeyOf(key))
        expiryTime == GetItem(st, ExpiryKeyOf(key))
    IN
    IF fail = "read" THEN [store |-> st, val |-> JNull, threw |-> TRUE]
    ELSE IF ~StrTruthy(cachedData) \/ ~StrTruthy(expiryTime)
    THEN [store |-> st, val |-> JNull, threw |-> FALSE]
    ELSE IF Expired(t, ParseInt(expiryTime))
    THEN IF fail = "remove"
         THEN [store |-> st, val |-> JNull, threw |-> TRUE]
         ELSE [store |-> MultiRemove(st, {CacheKeyOf(key), ExpiryKeyOf(key)}),
               val |-> JNull, threw |-> FALSE]
    ELSE LET parsed == ParseCacheItemData(cachedData) IN
         IF parsed.ok THEN [store |-> st, val |-> parsed.v, threw |-> FALSE]
         ELSE [store |-> st, val |-> JNull, threw |-> TRUE]

\* CacheService.remove
CacheService_remove(st, key, fail) ==
    IF fail THEN st ELSE MultiRemove(st, {CacheKeyOf(key), ExpiryKeyOf(key)})

\* A clearAll that removes every key, whatever its prefix
CacheService_clearAll_everything(st, fail) == IF fail THEN st ELSE EmptyStore

\* CacheService.clearAll
CacheService_clearAll(st, fail) ==
    LET cacheKeys == {k \in GetAllKeys(st) :
                        StartsWith(k, CACHE_PREFIX) \/ StartsWith(k, CACHE_EXPIRY_PREFIX)}
    IN IF fail THEN st ELSE MultiRemove(st, cacheKeys)

\* CacheService.isValid at time t
CacheService_isValid(st, key, t, fail) ==
    LET expiryTime == GetItem(st, ExpiryKeyOf(key)) IN
    IF fail THEN FALSE
    ELSE IF ~StrTruthy(expiryTime) THEN FALSE
    ELSE Lt(Num(t), ParseInt(expiryTime))

----------------------------------------------------------------------------
(* Cache keys of the Query Functions *)

GenresKey == <<"g", "e", "n", "r", "e", "s", "_", "l", "i", "s", "t">>

DetailsKey(id) ==
    <<"m", "o", "v", "i", "e", "_", "d", "e", "t", "a", "i", "l", "s", "_">> \o NumberToString(id)

Ids == 1..MaxId

\* The keys the direct CacheService operations are tried on
CacheKeys == {GenresKey, DetailsKey(MaxId)}

\* The payloads tried: every kind of JSON value, the falsy ones included
Payloads == {JNull, JNum(12), JStr(<<"a">>), JObj(7)}

\* The durations tried, in milliseconds
Durations == {1, 2}

NoEntry == [has |-> FALSE, storedAt |-> 0, ttl |-> 0, payload |-> Undefined]

\* Every expiry marker of store `after` is in store `before`, with the same text
MarkersKept(before, after) ==
    \A k \in DOMAIN after :
        StartsWith(k, CACHE_EXPIRY_PREFIX) => k \in DOMAIN before /\ after[k] = before[k]

\* Every key of store `before` that carries neither cache prefix is in store
\* `after`, with the same text
OthersKept(before, after) ==
    \A k \in DOMAIN before :
        (~StartsWith(k, CACHE_PREFIX) /\ ~StartsWith(k, CACHE_EXPIRY_PREFIX))
        => k \in DOMAIN after /\ after[k] = before[k]

\* How many keys of store `before` are not in store `after`
Removed(before, after) == Cardinality(DOMAIN before \ DOMAIN after)

NoRet ==
    [op |-> "none", key |-> <<>>, val |-> Undefined, threw |-> FALSE, kept |-> TRUE,
     others |-> TRUE, removed |-> 0]

----------------------------------------------------------------------------
(* The CacheService operations as steps, each awaited before the next *)

Set(k, v, d, fail) ==
    /\ store' = CacheService_set(store, k, v, d, now, fail)
    /\ entry' = IF fail THEN entry
                ELSE [entry EXCEPT ![k] = [has |-> TRUE, storedAt |-> now, ttl |-> d, payload |-> v]]
    /\ ret' = [op |-> "set", key |-> k, val |-> Undefined, threw |-> fail,
               kept |-> MarkersKept(store, store'),
               others |-> OthersKept(store, store'), removed |-> Removed(store, store')]
    /\ UNCHANGED <<now, reqs, calls, historyVars, screenVars>>

Get(k, fail) ==
    LET r == CacheService_get(store, k, now, fail) IN
    /\ store' = r.store
    /\ ret' = [op |-> "get", key |-> k, val |-> r.val, threw |-> r.threw,
               kept |-> MarkersKept(store, r.store),
               others |-> OthersKept(store, r.store), removed |-> Removed(store, r.store)]
    /\ UNCHANGED <<now, entry, reqs, calls, historyVars, screenVars>>

IsValid(k, fail) ==
    /\ ret' = [op |-> "isValid", key |-> k,
               val |-> JBool(CacheService_isValid(store, k, now, fail)), threw |-> fail,
               kept |-> MarkersKept(store, store),
               others |-> OthersKept(store, store), removed |-> Removed(store, store)]
    /\ UNCHANGED <<now, store, entry, reqs, calls, historyVars, screenVars>>

Remove(k, fail) ==
    /\ store' = CacheService_remove(store, k, fail)
    /\ entry' = IF fail THEN entry ELSE [entry EXCEPT ![k] = NoEntry]
    /\ ret' = [op |-> "remove", key |-> k, val |-> Undefined, threw |-> fail,
               kept |-> MarkersKept(store, store'),
               others |-> OthersKept(store, store'), removed |-> Removed(store, store')]
    /\ UNCHANGED <<now, reqs, calls, historyVars, screenVars>>

ClearAll(fail) ==
    /\ store' = CacheService_clearAll(store, fail)
    /\ entry' = IF fail THEN entry ELSE [k \in DOMAIN entry |-> NoEntry]
    /\ ret' = [op |-> "clearAll", key |-> <<>>, val |-> Undefined, threw |-> fail,
               kept |-> MarkersKept(store, store'),
               others |-> OthersKept(store, store'), removed |-> Removed(store, store')]
    /\ UNCHANGED <<now, reqs, calls, historyVars, screenVars>>

\* A millisecond passes
TickCache ==
    /\ now < StartTime + MaxTicks
    /\ now' = now + 1
    /\ ret' = NoRet
    /\ UNCHANGED <<store, entry, reqs, calls, historyVars, screenVars>>

InitCache ==
    /\ now = StartTime
    /\ HistoryUnused
    /\ ScreenUnused
    /\ store = AppStore
    /\ entry = [k \in CacheKeys |-> NoEntry]
    /\ ret = NoRet
    /\ reqs = <<>>
    /\ calls = <<>>

NextCache ==
    \/ \E k \in CacheKeys, v \in Payloads, d \in Durations, fail \in BOOLEAN : Set(k, v, d, fail)
    \/ \E k \in CacheKeys, fail \in {"none", "read", "remove"} : Get(k, fail)
    \/ \E k \in CacheKeys, fail \in BOOLEAN : IsValid(k, fail)
    \/ \E k \in CacheKeys, fail \in BOOLEAN : Remove(k, fail)
    \/ \E fail \in BOOLEAN : ClearAll(fail)
    \/ TickCache

SpecCache == InitCache /\ [][NextCache]_vars

----------------------------------------------------------------------------
(* A set cut short: AsyncStorage.multiSet does not write its pairs in one  *)
(* transaction, and the app can die when one pair is written and the other *)
(* is not.  The store is durable, so the next run of the app finds it so.  *)

\* The pairs of the multiSet of CacheService.set
Halves == {"data", "expiry"}

\* set(k, v, d) of which only the pair `half` reached the store
SetInterrupted(k, v, d, half) ==
    /\ store' = IF half = "data"
                THEN SetItem(store, CacheKeyOf(k), StringifyCacheItem(v, now))
                ELSE SetItem(store, ExpiryKeyOf(k), NumberToString(now + d))
    /\ ret' = [op |-> "crash", key |-> k, val |-> Undefined, threw |-> TRUE,
               kept |-> MarkersKept(store, store'),
               others |-> OthersKept(store, store'), removed |-> Removed(store, store')]
    /\ UNCHANGED <<now, entry, reqs, calls, historyVars, screenVars>>

\* What the sets that may be cut short store: a response body, for a millisecond
CrashPayloads == {JObj(7)}
CrashDurations == {1}

NextCrash ==
    \/ \E k \in CacheKeys, v \in CrashPayloads, d \in CrashDurations : Set(k, v, d, FALSE)
    \/ \E k \in CacheKeys, v \in CrashPayloads, d \in CrashDurations, half \in Halves :
          SetInterrupted(k, v, d, half)
    \/ \E k \in CacheKeys, fail \in {"none", "read", "remove"} : Get(k, fail)
    \/ TickCache

SpecCrash == InitCache /\ [][NextCrash]_vars

----------------------------------------------------------------------------
(* CacheService called with keys of any form: a key and the same key after  *)
(* the word the expiry prefix adds to the data prefix.  The store calls     *)
(* succeed.                                                                 *)

\* The logical keys 'x' and 'expiry_x'
IsolationKeys == {<<"x">>, <<"e", "x", "p", "i", "r", "y", "_", "x">>}

InitKeys ==
    /\ now = StartTime
    /\ HistoryUnused
    /\ ScreenUnused
    /\ store = AppStore
    /\ entry = [k \in IsolationKeys |-> NoEntry]
    /\ ret = NoRet
    /\ reqs = <<>>
    /\ calls = <<>>

NextKeys ==
    \/ \E k \in IsolationKeys, v \in Payloads, d \in Durations : Set(k, v, d, FALSE)
    \/ \E k \in IsolationKeys : Get(k, "none")
    \/ \E k \in IsolationKeys : IsValid(k, FALSE)
    \/ \E k \in IsolationKeys : Remove(k, FALSE)
    \/ TickCache

SpecKeys == InitKeys /\ [][NextKeys]_vars

----------------------------------------------------------------------------
(* Claims about CacheService, under SpecCache *)

ExpiresAt(k) == entry[k].storedAt + entry[k].ttl

\* get handed a payload to its caller
GetHit == ret.op = "get" /\ ret.val # JNull

\* C1: get returns the payload only while now < expiresAt, where expiresAt is
\* the time of the set plus its ttl; at now >= expiresAt it never returns it.
C1_GetOnlyWhileValid ==
    GetHit => entry[ret.key].has /\ now < ExpiresAt(ret.key)

\* C2: a get issued right after set(key, v, ttl) with ttl > 0 completed, with
\* no time elapsed and no store failure, returns v.
C2_RoundTrip ==
    (/\ ret.op = "get"
     /\ ~ret.threw
     /\ entry[ret.key].has
     /\ entry[ret.key].storedAt = now
     /\ entry[ret.key].ttl > 0)
    => ret.val = entry[ret.key].payload

C2_Witness ==
    /\ ret.op = "get"
    /\ ~ret.threw
    /\ entry[ret.key].has
    /\ entry[ret.key].storedAt = now
    /\ entry[ret.key].ttl > 0
    /\ ret.val = entry[ret.key].payload
    /\ ret.val = JStr(<<"a">>)

\* C3: once the clock is past the expiry of the entry last set for a key, every
\* get of that key returns absent until the key is set again, and no get or
\* isValid changes a stored expiry marker.
C3_ExpiryPermanent ==
    /\ (ret.op = "get" /\ entry[ret.key].has /\ now > ExpiresAt(ret.key)) => ret.val = JNull
    /\ ret.op \in {"get", "isValid"} => ret.kept

\* A get of an entry that is still in the store, past its expiry, returned absent
C3_Witness ==
    /\ ret.op = "get"
    /\ entry[ret.key].has
    /\ now > ExpiresAt(ret.key)
    /\ ret.val = JNull
    /\ ret.threw
    /\ entry[ret.key].payload # JNull
    /\ ExpiryKeyOf(ret.key) \in DOMAIN store

\* No key of the store carries a cache prefix
NoCacheKeys == \A k \in DOMAIN store : ~StartsWith(k, CACHE_PREFIX)

\* C17: after a clearAll whose store calls succeed, get returns absent (and
\* isValid false) for every key, no key with a cache prefix is left, and
\* every store key that carries neither cache prefix, such as the history
\* and the favorites, has the value it had before.
C17_ClearAllFrame ==
    (ret.op = "clearAll" /\ ~ret.threw)
    => /\ \A k \in CacheKeys :
             /\ CacheService_get(store, k, now, "none").val = JNull
             /\ ~CacheService_isValid(store, k, now, FALSE)
       /\ NoCacheKeys
       /\ ret.others
       /\ SEARCH_HISTORY_KEY \in DOMAIN store
       /\ FAVORITES_KEY \in DOMAIN store

\* clearAll removed the two sub-keys of both cache keys and left the other two
C17_Witness ==
    /\ ret.op = "clearAll"
    /\ ~ret.threw
    /\ ret.removed = 4
    /\ DOMAIN store = {SEARCH_HISTORY_KEY, FAVORITES_KEY}

\* Both sub-keys of key are absent from the store st
SubKeysAbsent(st, key) ==
    CacheKeyOf(key) \notin DOMAIN st /\ ExpiryKeyOf(key) \notin DOMAIN st

\* C25: isValid(key) returns true exactly when an entry for key exists and
\* now < expiresAt, and so exactly when get(key) at the same instant returns
\* the payload (stated for the payloads other than null, which get cannot
\* tell from absent).
C25_IsValidIffGet ==
    (ret.op = "isValid" /\ ~ret.threw)
    => /\ ret.val = JBool(entry[ret.key].has /\ now < ExpiresAt(ret.key))
       /\ entry[ret.key].payload # JNull
          => (ret.val = JBool(TRUE)
              <=> /\ entry[ret.key].has
                  /\ CacheService_get(store, ret.key, now, "none").val
                     = entry[ret.key].payload)

\* C26: the access that finds an entry expired removes it: after a get or an
\* isValid of a key whose entry is expired (now >= expiresAt), made with no
\* store failure, both sub-keys of the key are absent from the store; and a
\* get whose removal fails still returns absent.
C26_LazyEviction ==
    /\ (/\ ret.op \in {"get", "isValid"}
        /\ ~ret.threw
        /\ entry[ret.key].has
        /\ now >= ExpiresAt(ret.key))
       => SubKeysAbsent(store, ret.key)
    /\ (ret.op = "get" /\ ret.threw) => ret.val = JNull

\* Exactly one of the two sub-keys of key is in the store st
ExactlyOneSubKey(st, key) ==
    (CacheKeyOf(key) \in DOMAIN st) # (ExpiryKeyOf(key) \in DOMAIN st)

\* C27 (under SpecCrash): a set cut short between its two sub-key writes can
\* leave one sub-key without the other, and whenever exactly one of the data
\* sub-key and the expiry sub-key of a key is present, get(key) returns
\* absent (and leaves the store as it is).
C27_HalfEntryIsMiss ==
    /\ (ret.op = "get" /\ ExactlyOneSubKey(store, ret.key))
       => ret.val = JNull /\ ret.removed = 0
    /\ \A k \in CacheKeys :
          ExactlyOneSubKey(store, k)
          => /\ CacheService_get(store, k, now, "none").val = JNull
             /\ CacheService_get(store, k, now, "none").store = store

\* get returned absent for a key whose data sub-key is in the store without
\* its expiry sub-key
C27_Witness ==
    /\ ret.op = "get"
    /\ ~ret.threw
    /\ ret.val = JNull
    /\ CacheKeyOf(ret.key) \in DOMAIN store
    /\ ParseCacheItemData(store[CacheKeyOf(ret.key)]).v = JObj(7)
    /\ ExpiryKeyOf(ret.key) \notin DOMAIN store

----------------------------------------------------------------------------
(* The tmdb client: axios instance with the retrying response interceptor *)

MAX_RETRIES == 2

\* The factor of the setTimeout delay, in milliseconds
BackoffUnit == 1000

\* config._retryCount before any handler has set it
UndefinedCount == 0 - 1

\* How an attempt can end: a response carrying a status, or no response at all
\* (connection failure or timeout), written as status 0.  axios resolves a
\* status in [200, 299] and rejects every other.
NoResponse == 0

\* !error.response || (status >= 500 && status < 600), with the upper limit off by one
RetryEligible_wide(status) ==
    status = NoResponse \/ (status >= 499 /\ status < 600)

\* !error.response || (error.response.status >= 500 && error.response.status < 600)
RetryEligible(status) ==
    status = NoResponse \/ (status >= 500 /\ status < 600)

\* The retry test with the budget off by one
ShouldRetry_oneMore(status, count) ==
    RetryEligible(status) /\ count <= MAX_RETRIES

\* The retry test with a budget of one retry
ShouldRetry_oneLess(status, count) ==
    RetryEligible(status) /\ count < MAX_RETRIES - 1

\* The condition of the retry branch, on the count as initialised by the handler
ShouldRetry(status, count) ==
    RetryEligible(status) /\ count < MAX_RETRIES

\* A delay that doubles instead of growing by one unit
BackoffDelay_doubling(count) == BackoffUnit * (2 * count - 1)

\* 1000 * config._retryCount, read after the increment
BackoffDelay(count) == BackoffUnit * count

\* The request config before tmdb.get has filled it in
NoConfig == [method |-> "none", url |-> "", params |-> <<>>]

\* tmdb.get('/movie/popular', {params: {page: 1}})
PopularRequest ==
    [method |-> "get", url |-> "/movie/popular", params |-> <<<<"page", 1>>>>]

\* The requests tried: the one above and tmdb.get('/genre/movie/list')
Requests ==
    {PopularRequest, [method |-> "get", url |-> "/genre/movie/list", params |-> <<>>]}

\* A logical request: the config object with its _retryCount, the state of
\* its promise, and what was sent and received (sent, outcomes, waits)
NewReq ==
    [pc |-> "idle", retryCount |-> UndefinedCount, attempts |-> 0, outcomes |-> <<>>,
     waits |-> <<>>, timerSetAt |-> 0, issuedAt |-> 0, status |-> 0, data |-> Undefined,
     config |-> NoConfig, sent |-> <<>>]

\* The fulfilled handler: clears the count and passes the response on
OnFulfilled(q, body) ==
    [q EXCEPT !.retryCount = 0, !.pc = "resolved", !.status = 200, !.data = body,
              !.outcomes = Append(@, 200)]

\* A rejected handler that rejects with the error of the first attempt
OnRejected_firstError(q, status, t) ==
    LET count == IF q.retryCount = UndefinedCount THEN 0 ELSE q.retryCount IN
    IF ShouldRetry(status, count)
    THEN [q EXCEPT !.retryCount = count + 1, !.pc = "backoff",
                   !.waits = Append(@, BackoffDelay(count + 1)), !.timerSetAt = t,
                   !.outcomes = Append(@, status)]
    ELSE [q EXCEPT !.retryCount = count, !.pc = "rejected",
                   !.status = IF q.outcomes # <<>> THEN q.outcomes[1] ELSE status,
                   !.outcomes = Append(@, status)]

\* A rejected handler that keeps one count for the client: the largest count
\* of the requests in flight
OnRejected_shared(q, status, t) ==
    LET counts == {IF reqs[r].retryCount = UndefinedCount THEN 0 ELSE reqs[r].retryCount :
                     r \in DOMAIN reqs}
        count == CHOOSE n \in counts : \A m \in counts : m <= n
    IN
    IF ShouldRetry(status, count)
    THEN [q EXCEPT !.retryCount = count + 1, !.pc = "backoff",
                   !.waits = Append(@, BackoffDelay(count + 1)), !.timerSetAt = t,
                   !.outcomes = Append(@, status)]
    ELSE [q EXCEPT !.retryCount = count, !.pc = "rejected", !.status = status,
                   !.outcomes = Append(@, status)]

\* The rejected handler, up to the await of the timer or the rejection.  Every
\* error of a dispatched request carries its config, so the !config return is
\* not taken.
OnRejected(q, status, t) ==
    LET count == IF q.retryCount = UndefinedCount THEN 0 ELSE q.retryCount IN
    IF ShouldRetry(status, count)
    THEN [q EXCEPT !.retryCount = count + 1, !.pc = "backoff",
                   !.waits = Append(@, BackoffDelay(count + 1)), !.timerSetAt = t,
                   !.outcomes = Append(@, status)]
    ELSE [q EXCEPT !.retryCount = count, !.pc = "rejected", !.status = status,
                   !.outcomes = Append(@, status)]

\* tmdb(config): the request goes out (again), carrying the config and its count
Dispatch(q, t) ==
    [q EXCEPT !.pc = "inflight", !.attempts = @ + 1, !.issuedAt = t,
              !.sent = Append(@, [method |-> q.config.method, url |-> q.config.url,
                                  params |-> q.config.params, count |-> q.retryCount])]

\* A handler that awaits the timer and then never reissues the request
Reissue_never(q, t) == q

\* A handler that reissues the request with a config that has no count yet
Reissue_fresh(q, t) == Dispatch([q EXCEPT !.retryCount = UndefinedCount], t)

\* return tmdb(config), after the await of the timer
Reissue(q, t) == Dispatch(q, t)

\* The statuses tried for an attempt that fails
FailureStatuses == {NoResponse, 404, 499, 500, 503, 599, 600}

\* The response bodies tried
Bodies == {JObj(7)}

----------------------------------------------------------------------------
(* The client's steps *)

\* tmdb.get(...) is called
Issue(r, cfg) ==
    /\ reqs[r].pc = "idle"
    /\ reqs' = [reqs EXCEPT ![r] = Dispatch([@ EXCEPT !.config = cfg], now)]
    /\ UNCHANGED <<now, store, entry, ret, calls, historyVars, screenVars>>

\* An attempt ends with a 2xx response
AttemptSucceeds(r, body) ==
    /\ reqs[r].pc = "inflight"
    /\ reqs' = [reqs EXCEPT ![r] = OnFulfilled(@, body)]
    /\ UNCHANGED <<now, store, entry, ret, calls, historyVars, screenVars>>

\* An attempt ends with an error
AttemptFails(r, status) ==
    /\ reqs[r].pc = "inflight"
    /\ reqs' = [reqs EXCEPT ![r] = OnRejected(@, status, now)]
    /\ UNCHANGED <<now, store, entry, ret, calls, historyVars, screenVars>>

TimerDue(q) == q.timerSetAt + q.waits[Len(q.waits)]

\* The backoff timer fires and the handler reissues the request
TimerFires(r) ==
    /\ reqs[r].pc = "backoff"
    /\ now >= TimerDue(reqs[r])
    /\ reqs' = [reqs EXCEPT ![r] = Reissue(@, now)]
    /\ UNCHANGED <<now, store, entry, ret, calls, historyVars, screenVars>>

\* A second passes while a timer is pending
TickRetry ==
    /\ \E r \in DOMAIN reqs : reqs[r].pc = "backoff" /\ now < TimerDue(reqs[r])
    /\ now' = now + BackoffUnit
    /\ UNCHANGED <<store, entry, ret, reqs, calls, historyVars, screenVars>>

InitRetry ==
    /\ now = StartTime
    /\ HistoryUnused
    /\ ScreenUnused
    /\ store = EmptyStore
    /\ entry = [k \in CacheKeys |-> NoEntry]
    /\ ret = NoRet
    /\ reqs = [r \in 1..NumReqs |-> NewReq]
    /\ calls = <<>>

NextRetry ==
    \/ \E r \in 1..NumReqs : Issue(r, PopularRequest)
    \/ \E r \in 1..NumReqs, body \in Bodies : AttemptSucceeds(r, body)
    \/ \E r \in 1..NumReqs, status \in FailureStatuses : AttemptFails(r, status)
    \/ \E r \in 1..NumReqs : TimerFires(r)
    \/ TickRetry

\* The requests in flight together are requests of one kind: the interceptor
\* reads no field of the config but _retryCount
SpecRetry == InitRetry /\ [][NextRetry]_vars

\* An attempt of request r ends, with a response or with a failure
AttemptEnds(r) ==
    \/ \E body \in Bodies : AttemptSucceeds(r, body)
    \/ \E status \in FailureStatuses : AttemptFails(r, status)

\* One logical request of any kind, followed from tmdb.get to the settling of
\* its promise
InitRetryLive ==
    /\ now = StartTime
    /\ HistoryUnused
    /\ ScreenUnused
    /\ store = EmptyStore
    /\ entry = [k \in CacheKeys |-> NoEntry]
    /\ ret = NoRet
    /\ reqs = <<NewReq>>
    /\ calls = <<>>

NextRetryLive ==
    \/ \E cfg \in Requests : Issue(1, cfg)
    \/ AttemptEnds(1)
    \/ TimerFires(1)
    \/ TickRetry

\* The request where every attempt in flight ends, the clock runs while the
\* timer is pending, and the timer fires once it is due
SpecRetryLive ==
    /\ InitRetryLive
    /\ [][NextRetryLive]_vars
    /\ WF_vars(AttemptEnds(1))
    /\ WF_vars(TimerFires(1))
    /\ WF_vars(TickRetry)

----------------------------------------------------------------------------
(* Logical requests in flight together, as the requests the detail screen   *)
(* starts in one Promise.all                                                *)

\* The requests of the detail screen modelled: the details and the credits of
\* movie 1
DetailRequests ==
    <<[method |-> "get", url |-> "/movie/1", params |-> <<>>],
      [method |-> "get", url |-> "/movie/1/credits", params |-> <<>>]>>

\* The statuses tried for an attempt that fails
ParallelFailures == {NoResponse, 503, 404}

InitParallel ==
    /\ now = StartTime
    /\ HistoryUnused
    /\ ScreenUnused
    /\ store = EmptyStore
    /\ entry = [k \in CacheKeys |-> NoEntry]
    /\ ret = NoRet
    /\ reqs = [r \in DOMAIN DetailRequests |-> NewReq]
    /\ calls = <<>>

NextParallel ==
    \/ \E r \in DOMAIN DetailRequests : Issue(r, DetailRequests[r])
    \/ \E r \in DOMAIN DetailRequests, body \in Bodies : AttemptSucceeds(r, body)
    \/ \E r \in DOMAIN DetailRequests, status \in ParallelFailures : AttemptFails(r, status)
    \/ \E r \in DOMAIN DetailRequests : TimerFires(r)
    \/ TickRetry

SpecParallel == InitParallel /\ [][NextParallel]_vars

----------------------------------------------------------------------------
(* Claims about the tmdb client, under SpecRetry *)

\* Retry-eligible as the specification defines it: no response, or a status in [500, 599]
EligibleFailure(status) == status = 0 \/ (status >= 500 /\ status <= 599)

\* The i-th attempt of q ended in an error
FailedAttempt(q, i) == i \in 1..Len(q.outcomes) /\ ~(q.outcomes[i] \in 200..299)

\* The i-th attempt of q was followed by a retry (reissued, or waiting to be)
Retried(q, i) == q.attempts > i \/ (q.pc = "backoff" /\ q.attempts = i)

\* A 4xx failure of the first attempt ends the request with that status
ClientErrorSurfaced(q) ==
    (Len(q.outcomes) >= 1 /\ q.outcomes[1] \in 400..499)
    => q.pc = "rejected" /\ q.status = q.outcomes[1] /\ q.attempts = 1 /\ q.waits = <<>>

\* C6, as stated: a failed attempt is retried if and only if it is
\* retry-eligible, and a 4xx failure is returned on the first attempt.
C6_RetriedIffEligible ==
    \A r \in DOMAIN reqs :
        /\ \A i \in 1..3 :
              FailedAttempt(reqs[r], i) =>
                  (Retried(reqs[r], i) <=> EligibleFailure(reqs[r].outcomes[i]))
        /\ ClientErrorSurfaced(reqs[r])

\* C6, amended: a failed attempt is retried if and only if it is retry-eligible
\* and fewer than 2 retries were made before it; a 4xx failure is never retried
\* and is returned, with its status, on the first attempt.
C6_RetriedIffEligibleWithinBudget ==
    \A r \in DOMAIN reqs :
        /\ \A i \in 1..3 :
              FailedAttempt(reqs[r], i) =>
                  (Retried(reqs[r], i) <=> (EligibleFailure(reqs[r].outcomes[i]) /\ i - 1 < 2))
        /\ ClientErrorSurfaced(reqs[r])

\* A retried 5xx, then a 4xx on the retry that is not retried, and a first-attempt 404
C6_Witness ==
    \E r \in DOMAIN reqs :
        /\ reqs[r].outcomes = <<599, 499>>
        /\ reqs[r].pc = "rejected"
        /\ reqs[r].status = 499

\* C7: the retry counter never exceeds 2, and one logical request makes at most
\* 2 retries, 3 attempts in all.
C7_RetryBound ==
    \A r \in DOMAIN reqs :
        /\ reqs[r].retryCount <= 2
        /\ Len(reqs[r].waits) <= 2
        /\ reqs[r].attempts <= 3

C7_Witness ==
    \E r \in DOMAIN reqs :
        /\ reqs[r].attempts = 3
        /\ reqs[r].retryCount = 2
        /\ reqs[r].pc = "rejected"
        /\ reqs[r].status = 503

\* C8: three attempts in a row without a response make exactly 2 retries, then
\* the request rejects with the no-response error; no fourth attempt is made.
C8_ExhaustsAfterTwoRetries ==
    \A r \in DOMAIN reqs :
        (Len(reqs[r].outcomes) >= 3 /\ SubSeq(reqs[r].outcomes, 1, 3) = <<0, 0, 0>>)
        => /\ reqs[r].pc = "rejected"
           /\ reqs[r].status = 0
           /\ Len(reqs[r].waits) = 2
           /\ reqs[r].attempts = 3

C8_Witness ==
    \E r \in DOMAIN reqs :
        /\ reqs[r].outcomes = <<0, 0, 0>>
        /\ reqs[r].pc = "rejected"
        /\ reqs[r].attempts = 3

\* C9: two 503 failures are each followed by a retry, and a success of the
\* third attempt resolves the request with the response body after exactly 2 retries.
C9_SucceedsOnThirdAttempt ==
    \A r \in DOMAIN reqs :
        /\ reqs[r].outcomes = <<503, 503>>
           => reqs[r].pc \in {"backoff", "inflight"} /\ Len(reqs[r].waits) = 2
        /\ reqs[r].outcomes = <<503, 503, 200>>
           => /\ reqs[r].pc = "resolved"
              /\ reqs[r].data \in Bodies
              /\ Len(reqs[r].waits) = 2
              /\ reqs[r].attempts = 3

C9_Witness ==
    \E r \in DOMAIN reqs :
        /\ reqs[r].outcomes = <<503, 503, 200>>
        /\ reqs[r].pc = "resolved"
        /\ reqs[r].data = JObj(7)

Settled(q) == q.pc \in {"resolved", "rejected"}

\* C11: every logical request terminates: a request whose attempt is in flight
\* or that waits in backoff eventually resolves or rejects; it does not retry
\* forever.
C11_Terminates ==
    (reqs[1].pc \in {"inflight", "backoff"}) ~> Settled(reqs[1])

\* A request that went through a backoff and then completed successfully
C11_Witness ==
    \E r \in DOMAIN reqs :
        /\ reqs[r].outcomes = <<500, 200>>
        /\ reqs[r].waits = <<1000>>
        /\ Settled(reqs[r])

\* C24: the retry counter of a logical request is reset to zero on any
\* response that is not a retry-eligible failure: on a successful response and
\* on a 4xx response alike.
C24_CounterReset ==
    \A r \in DOMAIN reqs :
        /\ reqs[r].pc = "resolved" => reqs[r].retryCount = 0
        /\ (reqs[r].pc = "rejected" /\ ~EligibleFailure(reqs[r].status))
           => reqs[r].retryCount = 0

\* C30 (under SpecRetryLive): every retry attempt of a logical request is sent with the method,
\* path and params of the first attempt and carries the count of the retries
\* made so far, so the attempts of one logical request are counted together.
C30_RetryIsSameRequest ==
    \A r \in DOMAIN reqs :
        LET q == reqs[r] IN
        /\ Len(q.sent) = q.attempts
        /\ \A i \in 1..Len(q.sent) :
              /\ q.sent[i].method = q.sent[1].method
              /\ q.sent[i].url = q.sent[1].url
              /\ q.sent[i].params = q.sent[1].params
              /\ q.sent[i].count = IF i = 1 THEN UndefinedCount ELSE i - 1

\* The third attempt of tmdb.get('/movie/popular', {params: {page: 1}}) is in
\* flight
C30_Witness ==
    \E r \in DOMAIN reqs :
        /\ reqs[r].pc = "inflight"
        /\ Len(reqs[r].sent) = 3
        /\ reqs[r].sent[3].url = "/movie/popular"
        /\ reqs[r].sent[3].params = <<<<"page", 1>>>>
        /\ reqs[r].sent[3].count = 2

----------------------------------------------------------------------------
(* The Query Functions of src/api/tmdb.ts *)

UpperCase ==
    <<"A", "B", "C", "D", "E", "F", "G", "H", "I", "J", "K", "L", "M",
      "N", "O", "P", "Q", "R", "S", "T", "U", "V", "W", "X", "Y", "Z">>
LowerCase ==
    <<"a", "b", "c", "d", "e", "f", "g", "h", "i", "j", "k", "l", "m",
      "n", "o", "p", "q", "r", "s", "t", "u", "v", "w", "x", "y", "z">>

\* String.prototype.toLowerCase, on ASCII
ToLowerCase(s) ==
    [i \in 1..Len(s) |->
        IF \E j \in 1..26 : UpperCase[j] = s[i]
        THEN LowerCase[CHOOSE j \in 1..26 : UpperCase[j] = s[i]]
        ELSE s[i]]

\* String.prototype.trim, on blanks
RECURSIVE Trim(_)
Trim(s) ==
    IF s = <<>> THEN s
    ELSE IF Head(s) = " " THEN Trim(Tail(s))
    ELSE IF s[Len(s)] = " " THEN Trim(SubSeq(s, 1, Len(s) - 1))
    ELSE s

PageSuffix(page) == <<"_", "p", "a", "g", "e", "_">> \o NumberToString(page)

\* The cacheKey template of each Query Function
QueryKey(fn, id, page, query) ==
    CASE fn = "getPopularMovies" ->
            <<"p", "o", "p", "u", "l", "a", "r", "_", "m", "o", "v", "i", "e", "s">> \o PageSuffix(page)
      [] fn = "getMovieDetails" -> DetailsKey(id)
      [] fn = "getGenres" -> GenresKey
      [] fn = "searchMovies" ->
            <<"s", "e", "a", "r", "c", "h", "_">> \o Trim(ToLowerCase(query)) \o PageSuffix(page)
      [] fn = "getMoviesByGenre" ->
            <<"g", "e", "n", "r", "e", "_">> \o NumberToString(id) \o PageSuffix(page)
      [] fn = "getMovieCredits" ->
            <<"m", "o", "v", "i", "e", "_", "c", "r", "e", "d", "i", "t", "s", "_">> \o NumberToString(id)
      [] fn = "getSimilarMovies" ->
            <<"s", "i", "m", "i", "l", "a", "r", "_", "m", "o", "v", "i", "e", "s", "_">>
            \o NumberToString(id) \o PageSuffix(page)
      [] fn = "getMovieVideos" ->
            <<"m", "o", "v", "i", "e", "_", "v", "i", "d", "e", "o", "s", "_">> \o NumberToString(id)

Minute == 1000 * 60

\* Every Query Function caching for one hour
QueryTtl_hour(fn) == Minute * 60

\* The duration each Query Function passes to CacheService.set
QueryTtl(fn) ==
    CASE fn = "getPopularMovies" -> Minute * 30
      [] fn = "getMovieDetails" -> Minute * 60
      [] fn = "getGenres" -> Minute * 60 * 24
      [] fn = "searchMovies" -> Minute * 15
      [] fn = "getMoviesByGenre" -> Minute * 30
      [] fn = "getMovieCredits" -> Minute * 60
      [] fn = "getSimilarMovies" -> Minute * 30
      [] fn = "getMovieVideos" -> Minute * 60

\* Every Query Function using the cache for every page
UsesCache_everyPage(fn, page) == TRUE

\* if (page === 1) around the cache read and the cache write
UsesCache(fn, page) ==
    IF fn \in {"searchMovies", "getMoviesByGenre", "getSimilarMovies"} THEN page = 1 ELSE TRUE

\* What the function caches and returns of the response body: response.data,
\* or response.data.genres (a property read of null throws)
Extracted(fn, body) ==
    IF fn # "getGenres" THEN [threw |-> FALSE, v |-> body]
    ELSE IF body.t \in {"null", "undefined"} THEN [threw |-> TRUE, v |-> Undefined]
    ELSE IF body.t = "genres" THEN [threw |-> FALSE, v |-> JArr(body.n)]
    ELSE [threw |-> FALSE, v |-> Undefined]

QueryFns ==
    {"getPopularMovies", "getMovieDetails", "getGenres", "searchMovies",
     "getMoviesByGenre", "getMovieCredits", "getSimilarMovies", "getMovieVideos"}

Pages == {1, 2}

\* The search queries tried: one as typed, with a blank and a capital, and
\* its lowercased and trimmed form
Queries == {<<" ", "D", "u">>, <<"d", "u">>}

NoQuery == <<>>

\* The calls tried: each function with the arguments it reads
QueryArgs ==
    {[fn |-> "getGenres", id |-> 0, page |-> 1, query |-> NoQuery]}
    \cup {[fn |-> "getPopularMovies", id |-> 0, page |-> p, query |-> NoQuery] : p \in Pages}
    \cup {[fn |-> f, id |-> MaxId, page |-> 1, query |-> NoQuery] :
            f \in {"getMovieDetails", "getMovieCredits", "getMovieVideos"}}
    \cup {[fn |-> f, id |-> MaxId, page |-> p, query |-> NoQuery] :
            f \in {"getMoviesByGenre", "getSimilarMovies"}, p \in Pages}
    \cup {[fn |-> "searchMovies", id |-> 0, page |-> p, query |-> q] : p \in Pages, q \in Queries}

QueryKeys == {QueryKey(a.fn, a.id, a.page, a.query) : a \in QueryArgs}

\* The response bodies tried: a genre list (a truthy object) and the empty string
QueryBodies == {JGenres(3), JStr(<<>>)}

\* The failures tried: no response and a client error
QueryFailures == {NoResponse, 404}

\* A call slot of the function fn.  query is the query argument of the call;
\* writer is the query argument of the call whose result the cache holds
NewCall(fn) ==
    [pc |-> "idle", seq |-> 0, fn |-> fn, key |-> <<>>, page |-> 0, hadEntry |-> FALSE,
     hadValid |-> FALSE, cachedPayload |-> Undefined, getThrew |-> FALSE,
     setFailed |-> FALSE, storeOps |-> <<>>, result |-> Undefined, error |-> 0,
     query |-> NoQuery, writer |-> NoQuery]

\* if (cached)
CacheHit(cached) == Truthy(cached)

\* The function is called: the cache read, then on a hit the return and on a
\* miss the dispatch of the request
QStart(c, a, fail) ==
    LET key == QueryKey(a.fn, a.id, a.page, a.query)
        uses == UsesCache(a.fn, a.page)
        r == IF uses THEN CacheService_get(store, key, now, fail)
             ELSE [store |-> store, val |-> JNull, threw |-> FALSE]
        hit == uses /\ CacheHit(r.val)
        valid == entry[key].has /\ now < entry[key].storedAt + entry[key].ttl
    IN
    /\ calls[c].pc \in {"idle", "returned", "threw"}
    /\ calls[c].seq < NumCalls
    /\ calls[c].fn = a.fn
    /\ store' = r.store
    /\ calls' = [calls EXCEPT ![c] =
                    [pc |-> IF hit THEN "returned" ELSE "fetching",
                     seq |-> @.seq + 1, fn |-> a.fn, key |-> key, page |-> a.page,
                     hadEntry |-> entry[key].has, hadValid |-> valid,
                     cachedPayload |-> IF valid THEN entry[key].payload ELSE Undefined,
                     getThrew |-> r.threw, setFailed |-> FALSE,
                     storeOps |-> IF r.store # store THEN <<"multiRemove">> ELSE <<>>,
                     result |-> IF hit THEN r.val ELSE Undefined,
                     error |-> 0, query |-> a.query, writer |-> calls[c].writer]]
    /\ reqs' = [reqs EXCEPT ![c] = IF hit THEN NewReq ELSE Dispatch(NewReq, now)]
    /\ UNCHANGED <<now, entry, ret, historyVars, screenVars>>

\* A catch block that caches an empty result for the key before rethrowing
WriteOnFailure(c) ==
    CacheService_set(store, calls[c].key, JNull, QueryTtl(calls[c].fn), now, FALSE)

\* What the catch block does to the store: nothing
StoreAfterCatch(c) == store

\* The line the catch block of the function writes with console.error: the
\* operation and its identifiers, as the cache key has them
LogLine(c) == [line |-> "Error fetching", fn |-> calls[c].fn, key |-> calls[c].key]

\* A catch block that rethrows without console.error
LogAfterCatch_silent(c) == log

\* console.error in the catch block
LogAfterCatch(c) == Append(log, LogLine(c))

\* The request resolved: the cache write, then the return of the data
QFinish(c, fail) ==
    LET x == Extracted(calls[c].fn, reqs[c].data)
        uses == UsesCache(calls[c].fn, calls[c].page)
        wrote == uses /\ ~fail
    IN
    /\ calls[c].pc = "fetching"
    /\ reqs[c].pc = "resolved"
    /\ IF x.threw
       THEN /\ calls' = [calls EXCEPT ![c] = [@ EXCEPT !.pc = "threw", !.error = 0]]
            /\ log' = LogAfterCatch(c)
            /\ UNCHANGED <<store, entry>>
       ELSE /\ store' = IF uses
                        THEN CacheService_set(store, calls[c].key, x.v, QueryTtl(calls[c].fn), now, fail)
                        ELSE store
            /\ entry' = IF wrote
                        THEN [entry EXCEPT ![calls[c].key] =
                                [has |-> TRUE, storedAt |-> now,
                                 ttl |-> QueryTtl(calls[c].fn), payload |-> x.v]]
                        ELSE entry
            /\ calls' = [calls EXCEPT ![c] =
                            [@ EXCEPT !.pc = "returned", !.result = x.v,
                                      !.setFailed = uses /\ fail,
                                      !.storeOps = IF wrote THEN Append(@, "multiSet") ELSE @,
                                      !.writer = IF wrote THEN calls[c].query ELSE @]]
            /\ UNCHANGED log
    /\ UNCHANGED <<now, ret, reqs, historyVars, screen>>

\* The request rejected: the catch block logs and rethrows the error
QThrow(c) ==
    /\ calls[c].pc = "fetching"
    /\ reqs[c].pc = "rejected"
    /\ store' = StoreAfterCatch(c)
    /\ calls' = [calls EXCEPT ![c] =
                    [@ EXCEPT !.pc = "threw", !.error = reqs[c].status,
                              !.storeOps = IF store' # store THEN Append(@, "multiSet") ELSE @]]
    /\ log' = LogAfterCatch(c)
    /\ UNCHANGED <<now, entry, ret, reqs, historyVars, screen>>

\* Between two calls, time passes up to the expiry of a stored entry (d = 0) or
\* just past it (d = 1)
AdvanceToExpiry(k, d) ==
    /\ entry[k].has
    /\ \A c \in DOMAIN calls : calls[c].pc # "fetching" /\ calls[c].seq < NumCalls
    /\ entry[k].storedAt + entry[k].ttl + d > now
    /\ now' = entry[k].storedAt + entry[k].ttl + d
    /\ UNCHANGED <<store, entry, ret, reqs, calls, historyVars, screenVars>>

\* The entry an earlier call with arguments a left in the cache `age` milliseconds ago
EarlierEntry(a, body, age) ==
    [has |-> TRUE, storedAt |-> StartTime - age, ttl |-> QueryTtl(a.fn),
     payload |-> Extracted(a.fn, body).v]

\* A stored text that lost its last character
Damaged(text) == SubSeq(text, 1, Len(text) - 1)

\* The cache is durable: the first call finds it empty (`fresh`), or holding one
\* entry that an earlier call of the same function wrote one millisecond before
\* its expiry, at its expiry or one millisecond after it; the data text of that
\* entry may have been damaged since, and then it is no entry any more
InitQuery ==
    /\ now = StartTime
    /\ HistoryUnused
    /\ ScreenUnused
    /\ ret = NoRet
    /\ reqs = <<NewReq>>
    /\ \E a \in QueryArgs, body \in QueryBodies, late \in {0, 1, 2}, fresh \in BOOLEAN :
          LET key == QueryKey(a.fn, a.id, a.page, a.query)
              e == EarlierEntry(a, body, QueryTtl(a.fn) + late - 1)
          IN
          /\ IF fresh \/ ~UsesCache(a.fn, a.page) \/ Extracted(a.fn, body).threw
             THEN /\ store = EmptyStore
                  /\ entry = [k \in QueryKeys |-> NoEntry]
                  /\ calls = <<NewCall(a.fn)>>
             ELSE LET written == CacheService_set(EmptyStore, key, e.payload, e.ttl,
                                                  e.storedAt, FALSE)
                  IN
                  \/ /\ store = written
                     /\ entry = [k \in QueryKeys |-> IF k = key THEN e ELSE NoEntry]
                     /\ calls = <<[NewCall(a.fn) EXCEPT !.writer = a.query]>>
                  \/ /\ store = [written EXCEPT ![CacheKeyOf(key)] = Damaged(@)]
                     /\ entry = [k \in QueryKeys |-> NoEntry]
                     /\ calls = <<NewCall(a.fn)>>

NextQuery ==
    \/ \E a \in QueryArgs, fail \in {"none", "read", "remove"} : QStart(1, a, fail)
    \/ \E body \in QueryBodies : AttemptSucceeds(1, body)
    \/ \E status \in QueryFailures : AttemptFails(1, status)
    \/ TimerFires(1)
    \/ TickRetry
    \/ \E fail \in BOOLEAN : QFinish(1, fail)
    \/ QThrow(1)
    \/ \E k \in QueryKeys, d \in {0, 1} : AdvanceToExpiry(k, d)

SpecQuery == InitQuery /\ [][NextQuery]_vars

----------------------------------------------------------------------------
(* Calls of one Query Function that overlap, as the getGenres() calls of    *)
(* the MovieCards of a list: every card calls it from its effect, none      *)
(* waiting for another.  The store calls succeed.                           *)

\* The callers, and the call each makes
Callers == {1, 2}

GenresCall == [fn |-> "getGenres", id |-> 0, page |-> 1, query |-> NoQuery]

\* The response bodies tried: two genre lists and the empty string
OverlapBodies == {JGenres(3), JGenres(2), JStr(<<>>)}

InitCards ==
    /\ now = StartTime
    /\ HistoryUnused
    /\ ScreenUnused
    /\ ret = NoRet
    /\ store = EmptyStore
    /\ entry = [k \in QueryKeys |-> NoEntry]
    /\ calls = [c \in Callers |-> NewCall("getGenres")]
    /\ reqs = [c \in Callers |-> NewReq]

NextCards ==
    \/ \E c \in Callers : QStart(c, GenresCall, "none")
    \/ \E c \in Callers, body \in OverlapBodies : AttemptSucceeds(c, body)
    \/ \E c \in Callers : AttemptFails(c, 404)
    \/ \E c \in Callers : QFinish(c, FALSE)
    \/ \E c \in Callers : QThrow(c)

SpecCards == InitCards /\ [][NextCards]_vars

----------------------------------------------------------------------------
(* Claims about the Query Functions, under SpecQuery *)

\* C4: a Query Function called while the cache holds a valid entry for its key
\* (now < expiresAt, the cache read not failing) returns the cached value and
\* issues no network request.
C4_HitSkipsNetwork ==
    \A c \in DOMAIN calls :
        (calls[c].seq >= 1 /\ calls[c].hadValid /\ ~calls[c].getThrew)
        => /\ calls[c].pc = "returned"
           /\ calls[c].result = calls[c].cachedPayload
           /\ reqs[c].attempts = 0

\* C5, as stated: a failed call propagates the error and leaves the store
\* content for its cache key as it was before the call.
C5_FailureLeavesStoreUnchanged ==
    \A c \in DOMAIN calls :
        calls[c].pc = "threw"
        => /\ reqs[c].pc = "rejected"
           /\ calls[c].error = reqs[c].status
           /\ calls[c].storeOps = <<>>

\* C5, amended: a failed call propagates the terminal error (a non-retryable
\* one, or a retry-eligible one after 3 attempts) and writes nothing to the
\* cache; the store content for its key is as before the call, except that an
\* entry its cache read found expired has been removed.
C5_FailureWritesNothing ==
    \A c \in DOMAIN calls :
        calls[c].pc = "threw"
        => /\ reqs[c].pc = "rejected"
           /\ calls[c].error = reqs[c].status
           /\ EligibleFailure(calls[c].error) => reqs[c].attempts = 3
           /\ calls[c].storeOps \in {<<>>, <<"multiRemove">>}
           /\ calls[c].storeOps = <<"multiRemove">>
              => /\ ~calls[c].hadValid
                 /\ CacheKeyOf(calls[c].key) \notin DOMAIN store
                 /\ ExpiryKeyOf(calls[c].key) \notin DOMAIN store

\* A call that evicted an expired entry, exhausted its retries and threw
C5_Witness ==
    \E c \in DOMAIN calls :
        /\ calls[c].pc = "threw"
        /\ calls[c].error = 0
        /\ reqs[c].attempts = 3
        /\ calls[c].storeOps = <<"multiRemove">>

\* C16: a cache failure never reaches the caller: get returns absent on a
\* store error and on malformed cached JSON, and a Query Function whose cache
\* read or cache write fails still fetches and returns the network result; it
\* throws only the error of its request.
C16_CacheFailuresInvisible ==
    /\ \A c \in DOMAIN calls :
          /\ (calls[c].seq >= 1 /\ calls[c].getThrew) => reqs[c].attempts >= 1
          /\ (calls[c].pc = "returned" /\ reqs[c].pc = "resolved")
             => calls[c].result = Extracted(calls[c].fn, reqs[c].data).v
          /\ calls[c].pc = "threw"
             => reqs[c].pc = "rejected" /\ calls[c].error = reqs[c].status
    /\ \A k \in QueryKeys, fail \in {"none", "read", "remove"} :
          LET r == CacheService_get(store, k, now, fail) IN
          r.threw => r.val = JNull /\ r.store = store

\* The cached text did not parse and the cache write was rejected, and the call
\* returned the genres of the response
C16_Witness ==
    \E c \in DOMAIN calls :
        /\ calls[c].pc = "returned"
        /\ calls[c].getThrew
        /\ calls[c].setFailed
        /\ calls[c].result = JArr(3)
        /\ CacheKeyOf(calls[c].key) \in DOMAIN store
        /\ ~ParseCacheItemData(store[CacheKeyOf(calls[c].key)]).ok

\* C18: a getGenres call made while the entry an earlier call wrote is within
\* its 24 h window issues no network request (two calls, one request), and a
\* call made once the window has expired issues a request.
C18_GenresFetchedOncePerTtl ==
    \A c \in DOMAIN calls :
        (calls[c].fn = "getGenres" /\ calls[c].seq >= 1 /\ calls[c].hadEntry
         /\ ~calls[c].getThrew)
        => IF calls[c].hadValid THEN reqs[c].attempts = 0 ELSE reqs[c].attempts >= 1

\* The table of the specification, in milliseconds
TtlTable(fn) ==
    CASE fn \in {"getPopularMovies", "getMoviesByGenre", "getSimilarMovies"} -> 1800000
      [] fn \in {"getMovieDetails", "getMovieCredits", "getMovieVideos"} -> 3600000
      [] fn = "getGenres" -> 86400000
      [] fn = "searchMovies" -> 900000

\* The functions that cache their first page only
FirstPageOnly == {"searchMovies", "getMoviesByGenre", "getSimilarMovies"}

\* The call in slot c missed the cache, fetched with success, and its cache
\* write (if it makes one) was not rejected
FetchedAndStored(c) ==
    /\ calls[c].pc = "returned"
    /\ reqs[c].pc = "resolved"
    /\ ~calls[c].setFailed

\* C19: after a miss and a successful fetch the result is in the store under
\* the function's key, with the expiry of the table (popular 30 min, details
\* 60 min, genres 24 h, search 15 min, by-genre 30 min, credits 60 min, similar
\* 30 min, videos 60 min), and the value returned is the value written (for
\* getGenres the genres array of the response).
C19_MissWritesWithTableTtl ==
    \A c \in DOMAIN calls :
        (FetchedAndStored(c) /\ (calls[c].fn \in FirstPageOnly => calls[c].page = 1))
        => LET k == calls[c].key IN
           /\ CacheKeyOf(k) \in DOMAIN store
           /\ ExpiryKeyOf(k) \in DOMAIN store
           /\ ParseCacheItemData(store[CacheKeyOf(k)]).ok
           /\ ParseCacheItemData(store[CacheKeyOf(k)]).v = calls[c].result
           /\ entry[k].has
           /\ ParseInt(store[ExpiryKeyOf(k)]) = Num(entry[k].storedAt + TtlTable(calls[c].fn))
           /\ calls[c].fn # "getGenres" => calls[c].result = reqs[c].data
           /\ (calls[c].fn = "getGenres" /\ reqs[c].data = JGenres(3))
              => calls[c].result = JArr(3)

\* getGenres fetched the list and stored the genres array for 24 hours
C19_Witness ==
    \E c \in DOMAIN calls :
        /\ FetchedAndStored(c)
        /\ calls[c].fn = "getGenres"
        /\ calls[c].result = JArr(3)
        /\ store[ExpiryKeyOf(GenresKey)] = NumberToString(now + 86400000)

\* C20: searchMovies, getMoviesByGenre and getSimilarMovies called with a page
\* other than 1 neither read nor write the cache: the call issues a network
\* request and leaves the store as it was; getPopularMovies reads and writes
\* the cache for every page.
C20_PageOneOnly ==
    \A c \in DOMAIN calls :
        /\ (calls[c].seq >= 1 /\ calls[c].fn \in FirstPageOnly /\ calls[c].page # 1)
           => /\ ~calls[c].getThrew
              /\ calls[c].storeOps = <<>>
              /\ ~calls[c].setFailed
              /\ reqs[c].attempts >= 1
              /\ CacheKeyOf(calls[c].key) \notin DOMAIN store
              /\ ExpiryKeyOf(calls[c].key) \notin DOMAIN store
        /\ (calls[c].seq >= 1 /\ calls[c].fn = "getPopularMovies")
           => /\ (calls[c].hadValid /\ Truthy(calls[c].cachedPayload) /\ ~calls[c].getThrew)
                 => /\ calls[c].pc = "returned"
                    /\ calls[c].result = calls[c].cachedPayload
                    /\ reqs[c].attempts = 0
              /\ FetchedAndStored(c)
                 => /\ calls[c].storeOps # <<>>
                    /\ calls[c].storeOps[Len(calls[c].storeOps)] = "multiSet"
                    /\ ExpiryKeyOf(calls[c].key) \in DOMAIN store

\* searchMovies returned page 2 from the network and the store holds nothing
C20_Witness ==
    \E c \in DOMAIN calls :
        /\ calls[c].pc = "returned"
        /\ calls[c].fn = "searchMovies"
        /\ calls[c].page = 2
        /\ reqs[c].pc = "resolved"
        /\ store = EmptyStore

\* The query lowercased, and without the blanks around it
Normalized(q) == Trim(ToLowerCase(q))

\* C29: page-1 searchMovies calls whose queries are equal after lowercasing
\* and trimming use the same cache entry, and the second call, made within
\* 15 minutes of the first (the entry it left is valid, the cache read does
\* not fail), returns the first call's result without a network request.
C29_SearchNormalized ==
    /\ \A q1, q2 \in Queries :
          Normalized(q1) = Normalized(q2)
          => QueryKey("searchMovies", 0, 1, q1) = QueryKey("searchMovies", 0, 1, q2)
    /\ \A c \in DOMAIN calls :
          (/\ calls[c].fn = "searchMovies"
           /\ calls[c].page = 1
           /\ calls[c].seq >= 1
           /\ Normalized(calls[c].query) = Normalized(calls[c].writer)
           /\ calls[c].hadValid
           /\ ~calls[c].getThrew)
          => /\ calls[c].pc = "returned"
             /\ calls[c].result = calls[c].cachedPayload
             /\ reqs[c].attempts = 0

----------------------------------------------------------------------------
(* SearchHistoryService *)

MAX_HISTORY_ITEMS == 10

\* A SearchHistoryItem
Item(q, t) == [query |-> q, timestamp |-> t]

QueryMember == <<"{", Quote, "q", "u", "e", "r", "y", Quote, ":", Quote>>

\* JSON.stringify of a SearchHistoryItem (the queries here need no escaping)
StringifyItem(it) ==
    QueryMember \o it.query \o <<Quote, ",">> \o TimestampMember
    \o NumberToString(it.timestamp) \o <<"}">>

RECURSIVE StringifyItems(_)
StringifyItems(h) ==
    IF h = <<>> THEN <<>>
    ELSE IF Len(h) = 1 THEN StringifyItem(h[1])
    ELSE StringifyItem(h[1]) \o <<",">> \o StringifyItems(Tail(h))

\* JSON.stringify of a SearchHistoryItem[]
StringifyHistory(h) == <<"[">> \o StringifyItems(h) \o <<"]">>

BadHistory == [ok |-> FALSE, items |-> <<>>]

\* The items of s from position i on, up to the closing bracket that ends s
RECURSIVE ParseItems(_, _, _)
ParseItems(s, i, acc) ==
    IF ~HasAt(s, i, QueryMember) THEN BadHistory
    ELSE
        LET qs == i + Len(QueryMember)
            j == FindQuote(s, qs)
            ts == j + 2 + Len(TimestampMember)
            r == DigitRun(s, ts, 0)
        IN
        IF j > Len(s) \/ ~HasAt(s, j + 1, <<",">> \o TimestampMember) THEN BadHistory
        ELSE IF r.next = ts \/ ~HasAt(s, r.next, <<"}">>) THEN BadHistory
        ELSE
            LET items == Append(acc, Item(SubSeq(s, qs, j - 1), r.val)) IN
            IF HasAt(s, r.next + 1, <<"]">>) /\ r.next + 1 = Len(s)
            THEN [ok |-> TRUE, items |-> items]
            ELSE IF HasAt(s, r.next + 1, <<",">>) THEN ParseItems(s, r.next + 2, items)
            ELSE BadHistory

\* JSON.parse of a history text: ok is FALSE where JSON.parse throws
ParseHistory(s) ==
    IF s = <<"[", "]">> THEN [ok |-> TRUE, items |-> <<>>]
    ELSE IF HasAt(s, 1, <<"[">>) THEN ParseItems(s, 2, <<>>)
    ELSE BadHistory

\* x put into a list sorted by descending timestamp, after the items that do
\* not come after it
RECURSIVE InsertDesc(_, _)
InsertDesc(sorted, x) ==
    IF sorted = <<>> THEN <<x>>
    ELSE IF Head(sorted).timestamp - x.timestamp < 0 THEN <<x>> \o sorted
    ELSE <<Head(sorted)>> \o InsertDesc(Tail(sorted), x)

\* history.sort((a, b) => b.timestamp - a.timestamp): Array.prototype.sort is
\* stable (ECMAScript 2019), items of equal timestamp keep their order
RECURSIVE SortDesc(_)
SortDesc(h) ==
    IF h = <<>> THEN <<>>
    ELSE InsertDesc(SortDesc(SubSeq(h, 1, Len(h) - 1)), h[Len(h)])

\* array.slice(0, end)
Slice(a, end) ==
    LET e == IF end < 0 THEN (IF Len(a) + end < 0 THEN 0 ELSE Len(a) + end)
             ELSE IF end > Len(a) THEN Len(a) ELSE end
    IN SubSeq(a, 1, e)

\* SearchHistoryService.getHistory once AsyncStorage.getItem has settled; fail:
\* getItem rejects.  failed tells that the catch block was entered.
SearchHistoryService_getHistory(st, fail) ==
    LET historyData == GetItem(st, SEARCH_HISTORY_KEY) IN
    IF fail THEN [val |-> <<>>, failed |-> TRUE]
    ELSE IF StrTruthy(historyData)
    THEN LET parsed == ParseHistory(historyData) IN
         IF parsed.ok THEN [val |-> SortDesc(parsed.items), failed |-> FALSE]
         ELSE [val |-> <<>>, failed |-> TRUE]
    ELSE [val |-> <<>>, failed |-> FALSE]

\* An addToHistory that takes only the empty query for blank
BlankQuery_emptyOnly(query) == query = <<>>

\* !query || query.trim().length === 0
BlankQuery(query) == query = <<>> \/ Len(Trim(query)) = 0

\* history.filter((item) => item.query.toLowerCase() !== queryLower)
FilterOut(history, queryLower) ==
    LET Keep(item) == ToLowerCase(item.query) # queryLower IN SelectSeq(history, Keep)

\* An addToHistory that puts the new entry in front without removing the old one
NewHistory_keepingOld(history, query, t) ==
    Slice(<<Item(Trim(query), t)>> \o history, MAX_HISTORY_ITEMS)

\* An addToHistory that keeps every entry, however many there are
NewHistory_unbounded(history, query, t) ==
    <<Item(Trim(query), t)>> \o FilterOut(history, ToLowerCase(Trim(query)))

\* An addToHistory that puts the new entry behind the entries kept
NewHistory_appending(history, query, t) ==
    Slice(FilterOut(history, ToLowerCase(Trim(query))) \o <<Item(Trim(query), t)>>,
          MAX_HISTORY_ITEMS)

\* newHistory of addToHistory, from the history read and Date.now() = t
NewHistory(history, query, t) ==
    LET trimmedQuery == Trim(query)
        queryLower == ToLowerCase(trimmedQuery)
        filteredHistory == FilterOut(history, queryLower)
    IN Slice(<<Item(trimmedQuery, t)>> \o filteredHistory, MAX_HISTORY_ITEMS)

\* A removeFromHistory that compares the queries as they are written
FilteredHistory_exactCase(history, query) ==
    LET Keep(item) == item.query # query IN SelectSeq(history, Keep)

\* filteredHistory of removeFromHistory
FilteredHistory(history, query) == FilterOut(history, ToLowerCase(query))

\* A getRecentSearches that returns the query of every entry
RecentSearches_whole(history, limit) == [i \in 1..Len(history) |-> history[i].query]

\* history.slice(0, limit).map((item) => item.query)
RecentSearches(history, limit) ==
    LET part == Slice(history, limit) IN [i \in 1..Len(part) |-> part[i].query]

\* The history the store holds, in stored order (empty when there is none or
\* the text does not parse)
Persisted(st) ==
    LET historyData == GetItem(st, SEARCH_HISTORY_KEY) IN
    IF StrTruthy(historyData) /\ ParseHistory(historyData).ok
    THEN ParseHistory(historyData).items
    ELSE <<>>

\* The queries the calls are tried with: the casings of one title, another
\* title, and a query of blanks
HQueries ==
    {<<"D", "u", "n", "e">>, <<"d", "u", "n", "e">>,
     <<"A", "r", "r", "i", "v", "a", "l">>, <<" ">>}

\* The limits getRecentSearches is tried with
Limits == {1}

----------------------------------------------------------------------------
(* The SearchHistoryService calls as steps: a call runs up to its next await *)

\* The call op(arg) is made in slot c and runs up to its first await
HStart(c, op, arg, limit) ==
    /\ tasks[c].pc = "idle"
    /\ IF op = "add" /\ BlankQuery(arg)
       THEN /\ hret' = [op |-> op, arg |-> arg, limit |-> limit,
                        items |-> <<>>, strings |-> <<>>,
                        threw |-> FALSE, failed |-> FALSE, wrote |-> FALSE,
                        changed |-> FALSE, before |-> Persisted(store),
                        after |-> Persisted(store)]
            /\ UNCHANGED tasks
       ELSE /\ tasks' = [tasks EXCEPT ![c] =
                            [pc |-> IF op = "clear" THEN "removeItem" ELSE "getItem",
                             op |-> op, arg |-> arg, limit |-> limit,
                             readFailed |-> FALSE, blob |-> <<>>]]
            /\ UNCHANGED hret
    /\ UNCHANGED <<now, store, entry, ret, reqs, calls, added, screenVars>>

\* AsyncStorage.getItem of the call in slot c settles: getHistory returns, and
\* the call runs up to its return or to the await of its write
HRead(c, fail) ==
    LET t == tasks[c]
        r == SearchHistoryService_getHistory(store, fail)
    IN
    /\ t.pc = "getItem"
    /\ IF t.op \in {"get", "recent"}
       THEN /\ hret' = [op |-> t.op, arg |-> t.arg, limit |-> t.limit,
                        items |-> IF t.op = "get" THEN r.val ELSE <<>>,
                        strings |-> IF t.op = "recent" THEN RecentSearches(r.val, t.limit)
                                    ELSE <<>>,
                        threw |-> FALSE, failed |-> r.failed, wrote |-> FALSE,
                        changed |-> FALSE, before |-> Persisted(store),
                        after |-> Persisted(store)]
            /\ tasks' = [tasks EXCEPT ![c] = NoTask]
       ELSE /\ tasks' = [tasks EXCEPT ![c] =
                            [t EXCEPT !.pc = "setItem", !.readFailed = r.failed,
                                      !.blob = IF t.op = "add"
                                               THEN StringifyHistory(NewHistory(r.val, t.arg, now))
                                               ELSE StringifyHistory(FilteredHistory(r.val, t.arg))]]
            /\ UNCHANGED hret
    /\ UNCHANGED <<now, store, entry, ret, reqs, calls, added, screenVars>>

\* AsyncStorage.setItem / removeItem of the call in slot c settles (fail: it
\* rejects and nothing is written), and the call returns
HWriteStep(c, fail) ==
    LET t == tasks[c] IN
    /\ t.pc \in {"setItem", "removeItem"}
    /\ store' = IF fail THEN store
                ELSE IF t.pc = "removeItem" THEN RemoveItem(store, SEARCH_HISTORY_KEY)
                ELSE SetItem(store, SEARCH_HISTORY_KEY, t.blob)
    /\ tasks' = [tasks EXCEPT ![c] = NoTask]
    /\ UNCHANGED <<now, entry, ret, reqs, calls, screenVars>>

\* What the caller of slot c sees when its write has settled
WriteReturn(c, fail) ==
    LET t == tasks[c] IN
    [op |-> t.op, arg |-> t.arg, limit |-> t.limit, items |-> <<>>, strings |-> <<>>,
     threw |-> FALSE, failed |-> fail \/ t.readFailed, wrote |-> ~fail,
     changed |-> Persisted(store') # Persisted(store),
     before |-> Persisted(store), after |-> Persisted(store')]

HWrite(c, fail) ==
    /\ HWriteStep(c, fail)
    /\ hret' = WriteReturn(c, fail)
    /\ UNCHANGED added

\* A millisecond passes
TickHistory ==
    /\ now < StartTime + MaxTicks
    /\ now' = now + 1
    /\ UNCHANGED <<store, entry, ret, reqs, calls, historyVars, screenVars>>

\* The store holds no history yet; one caller awaits each call
InitHistory ==
    /\ now = StartTime
    /\ store = EmptyStore
    /\ entry = [k \in CacheKeys |-> NoEntry]
    /\ ret = NoRet
    /\ reqs = <<>>
    /\ calls = <<>>
    /\ tasks = <<NoTask>>
    /\ hret = NoHRet
    /\ added = NoAdded
    /\ ScreenUnused

NextHistory ==
    \/ \E q \in HQueries : HStart(1, "add", q, 0)
    \/ \E q \in HQueries : HStart(1, "remove", q, 0)
    \/ HStart(1, "clear", <<>>, 0)
    \/ HStart(1, "get", <<>>, 0)
    \/ \E l \in Limits : HStart(1, "recent", <<>>, l)
    \/ \E fail \in BOOLEAN : HRead(1, fail)
    \/ \E fail \in BOOLEAN : HWrite(1, fail)
    \/ TickHistory

SpecHistory == InitHistory /\ [][NextHistory]_vars

----------------------------------------------------------------------------
(* Mutating SearchHistoryService calls that overlap: none is awaited before *)
(* the next is made.  The calls run within one millisecond: a new entry is  *)
(* never older than the entries read, so the clock does not change what     *)
(* the overlapping calls write beside the timestamps.                       *)

\* The queries of the overlapping calls
RaceQueries ==
    {<<"D", "u", "n", "e">>, <<"d", "u", "n", "e">>, <<"A", "r", "r", "i", "v", "a", "l">>}

RaceWrite(c, fail) == HWriteStep(c, fail) /\ UNCHANGED <<hret, added>>

InitRace ==
    /\ now = StartTime
    /\ store = EmptyStore
    /\ entry = [k \in CacheKeys |-> NoEntry]
    /\ ret = NoRet
    /\ reqs = <<>>
    /\ calls = <<>>
    /\ tasks = [c \in 1..NumTasks |-> NoTask]
    /\ hret = NoHRet
    /\ added = NoAdded
    /\ ScreenUnused

NextRace ==
    \/ \E c \in 1..NumTasks, q \in RaceQueries : HStart(c, "add", q, 0)
    \/ \E c \in 1..NumTasks, q \in RaceQueries : HStart(c, "remove", q, 0)
    \/ \E c \in 1..NumTasks : HStart(c, "clear", <<>>, 0)
    \/ \E c \in 1..NumTasks, fail \in BOOLEAN : HRead(c, fail)
    \/ \E c \in 1..NumTasks, fail \in BOOLEAN : RaceWrite(c, fail)

SpecRace == InitRace /\ [][NextRace]_vars

----------------------------------------------------------------------------
(* addToHistory calls that overlap, as when the history item pressed in     *)
(* MoviesScreen is added while the search effect adds the query typed       *)
(* before: NumTasks calls in all, their store calls succeeding, `added`     *)
(* keeping the queries in the order their writes reached the store          *)

\* The queries of the overlapping addToHistory calls
OverlapQueries == {<<"D", "u", "n", "e">>, <<"A", "r", "r", "i", "v", "a", "l">>}

\* The calls in progress
InProgress == {c \in DOMAIN tasks : tasks[c].pc # "idle"}

OverlapStart(c, q) ==
    /\ Len(added.qs) + Cardinality(InProgress) < NumTasks
    /\ HStart(c, "add", q, 0)

OverlapRead(c) == HRead(c, FALSE)

OverlapWrite(c) ==
    /\ HWriteStep(c, FALSE)
    /\ UNCHANGED hret
    /\ added' = [added EXCEPT !.qs = Append(@, Trim(tasks[c].arg))]

NextOverlap ==
    \/ \E c \in 1..NumTasks, q \in OverlapQueries : OverlapStart(c, q)
    \/ \E c \in 1..NumTasks : OverlapRead(c)
    \/ \E c \in 1..NumTasks : OverlapWrite(c)
    \/ TickHistory

SpecOverlap == InitRace /\ [][NextOverlap]_vars

----------------------------------------------------------------------------
(* Distinct queries added one after another, each call awaited *)

\* The i-th query added
FillQuery(i) == <<"M">> \o NumberToString(i)

FillStart ==
    /\ Len(added.qs) < NumInserts
    /\ HStart(1, "add", FillQuery(Len(added.qs) + 1), 0)

FillRead(fail) == HRead(1, fail)

FillWrite(fail) ==
    /\ HWriteStep(1, fail)
    /\ UNCHANGED hret
    /\ added' = [qs |-> IF fail THEN added.qs ELSE Append(added.qs, Trim(tasks[1].arg)),
                 clean |-> added.clean /\ ~fail /\ ~tasks[1].readFailed]

InitFill ==
    /\ now = StartTime
    /\ store = EmptyStore
    /\ entry = [k \in CacheKeys |-> NoEntry]
    /\ ret = NoRet
    /\ reqs = <<>>
    /\ calls = <<>>
    /\ tasks = <<NoTask>>
    /\ hret = NoHRet
    /\ added = NoAdded
    /\ ScreenUnused

NextFill ==
    \/ FillStart
    \/ \E fail \in BOOLEAN : FillRead(fail)
    \/ \E fail \in BOOLEAN : FillWrite(fail)
    \/ TickHistory

SpecFill == InitFill /\ [][NextFill]_vars

----------------------------------------------------------------------------
(* The arguments of the SearchHistoryService calls: queries with blanks *)
(* around them, blank and empty queries, and the limits of                 *)
(* getRecentSearches; one caller awaits each call                          *)

\* A title between blanks, its lower case, another title, a query of blanks
\* and the empty query
ArgQueries ==
    {<<" ", "D", "u", "n", "e", " ">>, <<"d", "u", "n", "e">>,
     <<"A", "r", "r", "i", "v", "a", "l">>, <<" ">>, <<>>}

\* The limits of getRecentSearches: none, one, and the 5 that is its default
\* and the value MoviesScreen passes
RecentLimits == {0, 1, 5}

NextArgs ==
    \/ \E q \in ArgQueries : HStart(1, "add", q, 0)
    \/ \E q \in ArgQueries : HStart(1, "remove", q, 0)
    \/ \E l \in RecentLimits : HStart(1, "recent", <<>>, l)
    \/ \E fail \in BOOLEAN : HRead(1, fail)
    \/ \E fail \in BOOLEAN : HWrite(1, fail)
    \/ TickHistory

SpecArgs == InitHistory /\ [][NextArgs]_vars

----------------------------------------------------------------------------
(* handleApiError of src/components/LoadingSkeleton.tsx: the errors the     *)
(* screens catch, and the AppError they are mapped to                      *)

\* String.prototype.includes
Includes(s, sub) == \E i \in 1..Len(s) : HasAt(s, i, sub)

\* The word handleApiError looks for in error.message
TimeoutWord == <<"t", "i", "m", "e", "o", "u", "t">>

\* The message of each kind of error thrown: the axios messages of a timeout,
\* of a connection failure and of a response with an error status, the
\* message of an Error thrown elsewhere, and the empty message
MessageOf(kind, status) ==
    CASE kind = "timeout" ->
            <<"t", "i", "m", "e", "o", "u", "t", " ", "o", "f", " ", "1", "0", "0",
              "0", "0", "m", "s", " ", "e", "x", "c", "e", "e", "d", "e", "d">>
      [] kind = "network" ->
            <<"N", "e", "t", "w", "o", "r", "k", " ", "E", "r", "r", "o", "r">>
      [] kind = "response" ->
            <<"R", "e", "q", "u", "e", "s", "t", " ", "f", "a", "i", "l", "e", "d",
              " ", "w", "i", "t", "h", " ", "s", "t", "a", "t", "u", "s", " ", "c",
              "o", "d", "e", " ">>
            \o NumberToString(status)
      [] kind = "error" ->
            <<"C", "a", "n", "n", "o", "t", " ", "r", "e", "a", "d", " ", "p", "r",
              "o", "p", "e", "r", "t", "i", "e", "s", " ", "o", "f", " ", "u", "n",
              "d", "e", "f", "i", "n", "e", "d">>
      [] OTHER -> <<>>

\* The status_message of a TMDB error body
InvalidPage ==
    <<"I", "n", "v", "a", "l", "i", "d", " ", "p", "a", "g", "e", ":", " ", "P", "a",
      "g", "e", "s", " ", "s", "t", "a", "r", "t", " ", "a", "t", " ", "1", " ", "a",
      "n", "d", " ", "m", "a", "x", " ", "a", "t", " ", "5", "0", "0", ".">>

\* An absent property of an object; as a status_message it stands for the
\* empty string as well, which is as falsy
Absent == <<>>

\* The errors tried.  axios: error instanceof AxiosError; plain: error
\* instanceof Error; response is the status of error.response, or Absent;
\* statusMessage is error.response.data?.status_message, or Absent.
ErrorStatuses == 400..499 \cup {500, 502, 503}

ApiErrors ==
    {[axios |-> TRUE, plain |-> TRUE, code |-> "ECONNABORTED",
      message |-> MessageOf("timeout", 0), response |-> Absent, statusMessage |-> Absent],
     [axios |-> TRUE, plain |-> TRUE, code |-> "ERR_NETWORK",
      message |-> MessageOf("network", 0), response |-> Absent, statusMessage |-> Absent],
     [axios |-> FALSE, plain |-> TRUE, code |-> "",
      message |-> MessageOf("error", 0), response |-> Absent, statusMessage |-> Absent],
     [axios |-> FALSE, plain |-> TRUE, code |-> "",
      message |-> <<>>, response |-> Absent, statusMessage |-> Absent],
     [axios |-> FALSE, plain |-> FALSE, code |-> "",
      message |-> <<>>, response |-> Absent, statusMessage |-> Absent]}
    \cup {[axios |-> TRUE, plain |-> TRUE,
           code |-> IF st < 500 THEN "ERR_BAD_REQUEST" ELSE "ERR_BAD_RESPONSE",
           message |-> MessageOf("response", st), response |-> <<st>>, statusMessage |-> m] :
            st \in ErrorStatuses, m \in {Absent, InvalidPage}}

\* The messages of handleApiError
AppMessage(which) ==
    CASE which = "timeout" ->
            <<"R", "e", "q", "u", "e", "s", "t", " ", "t", "i", "m", "e", "o", "u",
              "t", ".", " ", "P", "l", "e", "a", "s", "e", " ", "c", "h", "e", "c",
              "k", " ", "y", "o", "u", "r", " ", "c", "o", "n", "n", "e", "c", "t",
              "i", "o", "n", " ", "a", "n", "d", " ", "t", "r", "y", " ", "a", "g",
              "a", "i", "n", ".">>
      [] which = "network" ->
            <<"N", "e", "t", "w", "o", "r", "k", " ", "e", "r", "r", "o", "r", ".",
              " ", "P", "l", "e", "a", "s", "e", " ", "c", "h", "e", "c", "k", " ",
              "y", "o", "u", "r", " ", "i", "n", "t", "e", "r", "n", "e", "t", " ",
              "c", "o", "n", "n", "e", "c", "t", "i", "o", "n", ".">>
      [] which = "generic" ->
            <<"A", "n", " ", "e", "r", "r", "o", "r", " ", "o", "c", "c", "u", "r",
              "r", "e", "d", " ", "w", "h", "i", "l", "e", " ", "f", "e", "t", "c",
              "h", "i", "n", "g", " ", "d", "a", "t", "a", ".">>
      [] which = "400" ->
            <<"I", "n", "v", "a", "l", "i", "d", " ", "r", "e", "q", "u", "e", "s",
              "t", ".", " ", "P", "l", "e", "a", "s", "e", " ", "t", "r", "y", " ",
              "a", "g", "a", "i", "n", ".">>
      [] which = "401" ->
            <<"A", "u", "t", "h", "e", "n", "t", "i", "c", "a", "t", "i", "o", "n",
              " ", "f", "a", "i", "l", "e", "d", ".", " ", "P", "l", "e", "a", "s",
              "e", " ", "c", "h", "e", "c", "k", " ", "y", "o", "u", "r", " ", "A",
              "P", "I", " ", "c", "r", "e", "d", "e", "n", "t", "i", "a", "l", "s",
              ".">>
      [] which = "403" ->
            <<"A", "c", "c", "e", "s", "s", " ", "f", "o", "r", "b", "i", "d", "d",
              "e", "n", ".", " ", "Y", "o", "u", " ", "d", "o", " ", "n", "o", "t",
              " ", "h", "a", "v", "e", " ", "p", "e", "r", "m", "i", "s", "s", "i",
              "o", "n", " ", "t", "o", " ", "a", "c", "c", "e", "s", "s", " ", "t",
              "h", "i", "s", " ", "r", "e", "s", "o", "u", "r", "c", "e", ".">>
      [] which = "404" ->
            <<"T", "h", "e", " ", "r", "e", "q", "u", "e", "s", "t", "e", "d", " ",
              "r", "e", "s", "o", "u", "r", "c", "e", " ", "w", "a", "s", " ", "n",
              "o", "t", " ", "f", "o", "u", "n", "d", ".">>
      [] which = "429" ->
            <<"T", "o", "o", " ", "m", "a", "n", "y", " ", "r", "e", "q", "u", "e",
              "s", "t", "s", ".", " ", "P", "l", "e", "a", "s", "e", " ", "t", "r",
              "y", " ", "a", "g", "a", "i", "n", " ", "l", "a", "t", "e", "r", ".">>
      [] which = "500" ->
            <<"S", "e", "r", "v", "e", "r", " ", "e", "r", "r", "o", "r", ".", " ",
              "P", "l", "e", "a", "s", "e", " ", "t", "r", "y", " ", "a", "g", "a",
              "i", "n", " ", "l", "a", "t", "e", "r", ".">>
      [] which = "503" ->
            <<"S", "e", "r", "v", "i", "c", "e", " ", "u", "n", "a", "v", "a", "i",
              "l", "a", "b", "l", "e", ".", " ", "P", "l", "e", "a", "s", "e", " ",
              "t", "r", "y", " ", "a", "g", "a", "i", "n", " ", "l", "a", "t", "e",
              "r", ".">>
      [] which = "unexpected" ->
            <<"A", "n", " ", "u", "n", "e", "x", "p", "e", "c", "t", "e", "d", " ",
              "e", "r", "r", "o", "r", " ", "o", "c", "c", "u", "r", "r", "e", "d",
              ".">>
      [] OTHER ->
            <<"A", "n", " ", "u", "n", "k", "n", "o", "w", "n", " ", "e", "r", "r",
              "o", "r", " ", "o", "c", "c", "u", "r", "r", "e", "d", ".", " ", "P",
              "l", "e", "a", "s", "e", " ", "t", "r", "y", " ", "a", "g", "a", "i",
              "n", ".">>

\* A switch without the case 429
StatusMessage_no429(statusCode, statusMessage) ==
    CASE statusCode = 400 -> AppMessage("400")
      [] statusCode = 401 -> AppMessage("401")
      [] statusCode = 403 -> AppMessage("403")
      [] statusCode = 404 -> AppMessage("404")
      [] statusCode = 500 -> AppMessage("500")
      [] statusCode = 503 -> AppMessage("503")
      [] OTHER -> IF StrTruthy(statusMessage) THEN statusMessage ELSE AppMessage("generic")

\* The switch on statusCode, its default being
\* error.response.data?.status_message || message
StatusMessage(statusCode, statusMessage) ==
    CASE statusCode = 400 -> AppMessage("400")
      [] statusCode = 401 -> AppMessage("401")
      [] statusCode = 403 -> AppMessage("403")
      [] statusCode = 404 -> AppMessage("404")
      [] statusCode = 429 -> AppMessage("429")
      [] statusCode = 500 -> AppMessage("500")
      [] statusCode = 503 -> AppMessage("503")
      [] OTHER -> IF StrTruthy(statusMessage) THEN statusMessage ELSE AppMessage("generic")

\* handleApiError(error): the AppError returned.  A property that the object
\* returned does not have is Absent; a flag it does not have is FALSE.
handleApiError(error) ==
    IF error.axios
    THEN IF error.code = "ECONNABORTED" \/ Includes(error.message, TimeoutWord)
         THEN [message |-> AppMessage("timeout"), code |-> error.code, statusCode |-> Absent,
               isNetworkError |-> FALSE, isTimeoutError |-> TRUE]
         ELSE IF error.response = Absent
         THEN [message |-> AppMessage("network"), code |-> error.code, statusCode |-> Absent,
               isNetworkError |-> TRUE, isTimeoutError |-> FALSE]
         ELSE [message |-> StatusMessage(error.response[1], error.statusMessage),
               code |-> error.code, statusCode |-> error.response,
               isNetworkError |-> FALSE, isTimeoutError |-> FALSE]
    ELSE IF error.plain
    THEN [message |-> IF error.message # <<>> THEN error.message
                      ELSE AppMessage("unexpected"),
          code |-> "", statusCode |-> Absent,
          isNetworkError |-> FALSE, isTimeoutError |-> FALSE]
    ELSE [message |-> AppMessage("unknown"), code |-> "", statusCode |-> Absent,
          isNetworkError |-> FALSE, isTimeoutError |-> FALSE]

\* A catch block of a screen maps the error it caught
HandleError(error) ==
    /\ screen' = [name |-> "catch", error |-> error, appError |-> handleApiError(error)]
    /\ UNCHANGED <<now, store, entry, ret, reqs, calls, historyVars, log>>

InitError ==
    /\ now = StartTime
    /\ HistoryUnused
    /\ ScreenUnused
    /\ store = EmptyStore
    /\ entry = [k \in CacheKeys |-> NoEntry]
    /\ ret = NoRet
    /\ reqs = <<>>
    /\ calls = <<>>

NextError == \E error \in ApiErrors : HandleError(error)

SpecError == InitError /\ [][NextError]_vars

----------------------------------------------------------------------------
(* MoviesScreen of src/app/(tabs)/movies.tsx: the search box, the genre     *)
(* chips, the recent searches, and the loads its effect and its list start. *)
(* The Query Functions are taken by their outcome (a result or an error),   *)
(* the SearchHistoryService calls by their effect when the store calls      *)
(* succeed; the steps of both are the subject of the sections above.        *)

\* getErrorMessage(error)
getErrorMessage(appError) ==
    IF appError.message # <<>> THEN appError.message
    ELSE <<"A", "n", " ", "e", "r", "r", "o", "r">>

\* The texts typed into the search box, and the genre chips
ScreenTexts == {<<"D", "u", "n", "e">>}

ScreenGenres == {<<28>>}

\* The request loadMovies and loadMoreMovies make for a debounced query and a
\* selected genre
Selection(debouncedQuery, selectedGenre) ==
    IF Len(debouncedQuery) > 2
    THEN [fn |-> "searchMovies", query |-> debouncedQuery, genre |-> Absent]
    ELSE IF selectedGenre # Absent
    THEN [fn |-> "getMoviesByGenre", query |-> <<>>, genre |-> selectedGenre]
    ELSE [fn |-> "getPopularMovies", query |-> <<>>, genre |-> Absent]

\* data.results of a page of a request: the movies are told apart by the
\* request and the page they answer
ResultsOf(sel, page) == <<[of |-> sel, page |-> page]>>

\* A load that is not running
NoLoad == [pc |-> "idle"]

\* No addToHistory call made yet
NoAdd == [by |-> "none"]

\* The error the failing requests are rejected with
LoadError ==
    CHOOSE e \in ApiErrors : e.code = "ERR_NETWORK"

\* SearchHistoryService.addToHistory(query) as a whole
AddToHistoryDone(st, query, t) ==
    IF BlankQuery(query) THEN st
    ELSE SetItem(st, SEARCH_HISTORY_KEY,
                 StringifyHistory(NewHistory(SearchHistoryService_getHistory(st, FALSE).val,
                                             query, t)))

\* SearchHistoryService.getRecentSearches(5) as a whole
RecentFive(st) == RecentSearches(SearchHistoryService_getHistory(st, FALSE).val, 5)

\* The load slots free
FreeLoads == {l \in DOMAIN screen.loads : screen.loads[l].pc = "idle"}

\* The effect on [debouncedQuery, selectedGenre] runs: the flags are reset and
\* loadMovies is called, which runs up to the await of its request
EffectRuns(s, debouncedQuery, selectedGenre) ==
    LET l == CHOOSE l \in FreeLoads : \A m \in FreeLoads : l <= m IN
    [s EXCEPT !.isLoading = TRUE, !.error = <<>>, !.currentPage = 1, !.hasMore = TRUE,
              !.loads[l] = [pc |-> "request", ok |-> FALSE,
                            sel |-> Selection(debouncedQuery, selectedGenre)]]

\* loadMovies adding whatever the outcome of its request
AfterRequest_always(ok, sel) == IF sel.fn = "searchMovies" THEN "addToHistory" ELSE "idle"

\* Where loadMovies goes on when its request has settled: to the await of
\* addToHistory after a search that succeeded, to its end otherwise
AfterRequest(ok, sel) ==
    IF ok /\ sel.fn = "searchMovies" THEN "addToHistory" ELSE "idle"

\* onChangeText of the search box
ChangeText(text) ==
    LET s == [screen EXCEPT !.query = text, !.selectedGenre = Absent] IN
    /\ screen.name = "movies"
    /\ text # screen.query
    /\ IF screen.selectedGenre # Absent
       THEN /\ FreeLoads # {}
            /\ screen' = EffectRuns(s, screen.debouncedQuery, Absent)
       ELSE screen' = s
    /\ UNCHANGED <<now, store, entry, ret, reqs, calls, historyVars, log>>

\* The clear button of the search box
ClearText ==
    /\ screen.name = "movies"
    /\ Len(screen.query) > 0
    /\ screen' = [screen EXCEPT !.query = <<>>]
    /\ UNCHANGED <<now, store, entry, ret, reqs, calls, historyVars, log>>

\* useDebounce: the query has stayed the same for 500 ms
DebounceFires ==
    /\ screen.name = "movies"
    /\ screen.query # screen.debouncedQuery
    /\ FreeLoads # {}
    /\ screen' = EffectRuns([screen EXCEPT !.debouncedQuery = screen.query],
                            screen.query, screen.selectedGenre)
    /\ UNCHANGED <<now, store, entry, ret, reqs, calls, historyVars, log>>

\* onPress of a genre chip (Absent: the chip All)
PressGenre(genre) ==
    LET s == [screen EXCEPT !.selectedGenre = genre, !.query = <<>>] IN
    /\ screen.name = "movies"
    /\ IF genre # screen.selectedGenre
       THEN /\ FreeLoads # {}
            /\ screen' = EffectRuns(s, screen.debouncedQuery, genre)
       ELSE screen' = s
    /\ UNCHANGED <<now, store, entry, ret, reqs, calls, historyVars, log>>

\* onPress of the i-th recent search, shown while the search box is empty
PressHistoryItem(i) ==
    LET item == screen.searchHistory[i] IN
    /\ screen.name = "movies"
    /\ screen.query = <<>>
    /\ i \in DOMAIN screen.searchHistory
    /\ store' = AddToHistoryDone(store, item, now)
    /\ screen' = [screen EXCEPT !.query = item,
                                !.lastAdd = [by |-> "onPress", query |-> item,
                                             succeeded |-> FALSE]]
    /\ UNCHANGED <<now, entry, ret, reqs, calls, historyVars, log>>

\* The focus effect: loadSearchHistory (a step only when the list changes)
Focus ==
    /\ screen.name = "movies"
    /\ screen.searchHistory # RecentFive(store)
    /\ screen' = [screen EXCEPT !.searchHistory = RecentFive(store)]
    /\ UNCHANGED <<now, store, entry, ret, reqs, calls, historyVars, log>>

\* The request of the load in slot l settles, and loadMovies runs up to the
\* await of addToHistory or to its end
LoadSettles(l, ok) ==
    LET ld == screen.loads[l]
        next == AfterRequest(ok, ld.sel)
    IN
    /\ screen.name = "movies"
    /\ ld.pc = "request"
    /\ ok \/ Len(log) < MaxLog
    /\ screen' = [screen EXCEPT
                    !.movies = IF ok THEN ResultsOf(ld.sel, 1) ELSE <<>>,
                    !.totalPages = IF ok THEN NumPages ELSE @,
                    !.hasMore = IF ok THEN NumPages > 1 ELSE @,
                    !.error = IF ok THEN @ ELSE getErrorMessage(handleApiError(LoadError)),
                    !.isLoading = IF next = "idle" THEN FALSE ELSE @,
                    !.loads[l] = IF next = "idle" THEN NoLoad
                                 ELSE [ld EXCEPT !.pc = next, !.ok = ok]]
    /\ log' = IF ok THEN log ELSE Append(log, [line |-> "Failed to load movies:", of |-> ld.sel])
    /\ UNCHANGED <<now, store, entry, ret, reqs, calls, historyVars>>

\* addToHistory and getRecentSearches of the load in slot l settle, and
\* loadMovies ends
LoadAdds(l) ==
    LET ld == screen.loads[l] IN
    /\ screen.name = "movies"
    /\ ld.pc = "addToHistory"
    /\ store' = AddToHistoryDone(store, ld.sel.query, now)
    /\ screen' = [screen EXCEPT !.searchHistory = RecentFive(store'),
                                !.isLoading = FALSE,
                                !.loads[l] = NoLoad,
                                !.lastAdd = [by |-> "loadMovies", query |-> ld.sel.query,
                                             succeeded |-> ld.ok]]
    /\ UNCHANGED <<now, entry, ret, reqs, calls, historyVars, log>>

\* handleEndReached: loadMoreMovies is called and runs up to the await of its
\* request
EndReached ==
    /\ screen.name = "movies"
    /\ ~screen.isLoadingMore /\ screen.hasMore
    /\ screen.currentPage < screen.totalPages
    /\ screen' = [screen EXCEPT !.isLoadingMore = TRUE,
                                !.more = [pc |-> "request",
                                          sel |-> Selection(screen.debouncedQuery,
                                                            screen.selectedGenre),
                                          nextPage |-> screen.currentPage + 1]]
    /\ UNCHANGED <<now, store, entry, ret, reqs, calls, historyVars, log>>

\* The request of loadMoreMovies settles
MoreSettles(ok) ==
    LET m == screen.more IN
    /\ screen.name = "movies"
    /\ m.pc = "request"
    /\ ok \/ Len(log) < MaxLog
    /\ screen' = [screen EXCEPT
                    !.movies = IF ok THEN @ \o ResultsOf(m.sel, m.nextPage) ELSE @,
                    !.currentPage = IF ok THEN m.nextPage ELSE @,
                    !.hasMore = IF ok THEN m.nextPage < NumPages ELSE @,
                    !.isLoadingMore = FALSE,
                    !.more = NoLoad]
    /\ log' = IF ok THEN log
              ELSE Append(log, [line |-> "Failed to load more movies:", of |-> m.sel])
    /\ UNCHANGED <<now, store, entry, ret, reqs, calls, historyVars>>

\* The history an earlier session may have left in the store
EarlierSearches == {<<>>, <<Item(<<"D", "u", "n", "e">>, StartTime - 1)>>}

\* The screen is mounted: its effects have run, loadMovies awaits the request
\* for the popular movies, and loadSearchHistory its getItem
InitScreen ==
    /\ now = StartTime
    /\ HistoryUnused
    /\ \E h \in EarlierSearches :
          store = IF h = <<>> THEN EmptyStore
                  ELSE SetItem(EmptyStore, SEARCH_HISTORY_KEY, StringifyHistory(h))
    /\ entry = [k \in CacheKeys |-> NoEntry]
    /\ ret = NoRet
    /\ reqs = <<>>
    /\ calls = <<>>
    /\ log = <<>>
    /\ screen = [name |-> "movies", query |-> <<>>, debouncedQuery |-> <<>>,
                 selectedGenre |-> Absent, movies |-> <<>>, isLoading |-> TRUE,
                 isLoadingMore |-> FALSE, error |-> <<>>, currentPage |-> 1,
                 totalPages |-> 1, hasMore |-> TRUE, searchHistory |-> <<>>,
                 loads |-> [l \in 1..NumLoads |->
                              IF l = 1 THEN [pc |-> "request", ok |-> FALSE,
                                             sel |-> Selection(<<>>, Absent)]
                              ELSE NoLoad],
                 more |-> NoLoad, lastAdd |-> NoAdd]

NextScreen ==
    \/ \E text \in ScreenTexts : ChangeText(text)
    \/ ClearText
    \/ DebounceFires
    \/ \E genre \in ScreenGenres \cup {Absent} : PressGenre(genre)
    \/ \E i \in 1..MAX_HISTORY_ITEMS : PressHistoryItem(i)
    \/ Focus
    \/ \E l \in 1..NumLoads, ok \in BOOLEAN : LoadSettles(l, ok)
    \/ \E l \in 1..NumLoads : LoadAdds(l)
    \/ EndReached
    \/ \E ok \in BOOLEAN : MoreSettles(ok)

SpecScreen == InitScreen /\ [][NextScreen]_vars

\* The screen used for searching only: the search box and the recent searches
NextSearch ==
    \/ \E text \in ScreenTexts : ChangeText(text)
    \/ ClearText
    \/ DebounceFires
    \/ \E i \in 1..MAX_HISTORY_ITEMS : PressHistoryItem(i)
    \/ Focus
    \/ \E l \in 1..NumLoads, ok \in BOOLEAN : LoadSettles(l, ok)
    \/ \E l \in 1..NumLoads : LoadAdds(l)

SpecSearch == InitScreen /\ [][NextSearch]_vars

----------------------------------------------------------------------------
(* MovieDetailsScreen of src/app/movie/[id].tsx: the favorite button.  The  *)
(* movies of the list are objects {"id": n}; the store calls succeed.       *)

\* JSON.stringify of an array of movies, given by their ids
RECURSIVE JoinMovies(_)
JoinMovies(ids) ==
    IF ids = <<>> THEN <<>>
    ELSE JsonStringify(JObj(ids[1]))
         \o (IF Len(ids) > 1 THEN <<",">> \o JoinMovies(Tail(ids)) ELSE <<>>)

StringifyMovies(ids) == <<"[">> \o JoinMovies(ids) \o <<"]">>

\* JSON.parse of such a text, from the movie at position i on: ok is FALSE
\* where JSON.parse throws
RECURSIVE ParseMovieList(_, _, _)
ParseMovieList(s, i, acc) ==
    LET r == ParseValue(s, i) IN
    IF ~r.ok \/ r.v.t # "obj" THEN [ok |-> FALSE, ids |-> <<>>]
    ELSE IF HasAt(s, r.next, <<"]">>) /\ r.next = Len(s)
    THEN [ok |-> TRUE, ids |-> Append(acc, r.v.n)]
    ELSE IF HasAt(s, r.next, <<",">>) THEN ParseMovieList(s, r.next + 1, Append(acc, r.v.n))
    ELSE [ok |-> FALSE, ids |-> <<>>]

ParseMovies(s) ==
    IF s = <<"[", "]">> THEN [ok |-> TRUE, ids |-> <<>>]
    ELSE IF HasAt(s, 1, <<"[">>) THEN ParseMovieList(s, 2, <<>>)
    ELSE [ok |-> FALSE, ids |-> <<>>]

\* The toggleFavorite calls that can be in progress together, and the movie
\* of the screen
Togglers == {1, 2}

ScreenMovie == MaxId

\* favoriteMovies.filter(favMovie => favMovie.id !== movie.id)
RECURSIVE WithoutMovie(_, _)
WithoutMovie(ids, id) ==
    IF ids = <<>> THEN <<>>
    ELSE (IF ids[1] = id THEN <<>> ELSE <<ids[1]>>) \o WithoutMovie(Tail(ids), id)

\* The list toggleFavorite writes: the one read, filtered when the closure's
\* isFavorite is true and with the movie pushed when it is false
ToggledMovies(ids, id, isFavorite) ==
    IF isFavorite THEN WithoutMovie(ids, id) ELSE Append(ids, id)

\* checkIfFavorite(movie), run by the effect on [movie]: getItem, then
\* setIsFavorite when the store has a list
CheckIfFavorite ==
    LET favorites == GetItem(store, FAVORITES_KEY)
        parsed == ParseMovies(favorites)
    IN
    /\ screen.name = "detail"
    /\ ~screen.checked
    /\ screen' = [screen EXCEPT
                    !.checked = TRUE,
                    !.isFavorite = IF StrTruthy(favorites) /\ parsed.ok
                                   THEN \E i \in DOMAIN parsed.ids : parsed.ids[i] = ScreenMovie
                                   ELSE @]
    /\ UNCHANGED <<now, store, entry, ret, reqs, calls, historyVars, log>>

\* The favorite button is pressed: toggleFavorite of the current render is
\* called and runs up to the await of getItem
PressFavorite(t) ==
    /\ screen.name = "detail"
    /\ screen.toggles[t].pc = "idle"
    /\ screen.presses < MaxPresses
    /\ screen' = [screen EXCEPT !.presses = @ + 1,
                                !.toggles[t] = [pc |-> "getItem",
                                                isFavorite |-> screen.isFavorite,
                                                blob |-> <<>>]]
    /\ UNCHANGED <<now, store, entry, ret, reqs, calls, historyVars, log>>

\* getItem of the toggle in slot t settles: the list is rebuilt and setItem
\* is called
ToggleRead(t) ==
    LET tg == screen.toggles[t]
        favorites == GetItem(store, FAVORITES_KEY)
        parsed == IF StrTruthy(favorites) THEN ParseMovies(favorites)
                  ELSE [ok |-> TRUE, ids |-> <<>>]
    IN
    /\ screen.name = "detail"
    /\ tg.pc = "getItem"
    /\ IF parsed.ok
       THEN /\ screen' = [screen EXCEPT
                            !.toggles[t] =
                                [tg EXCEPT !.pc = "setItem",
                                           !.blob = StringifyMovies(
                                               ToggledMovies(parsed.ids, ScreenMovie,
                                                             tg.isFavorite))]]
            /\ UNCHANGED log
       ELSE /\ screen' = [screen EXCEPT !.toggles[t] = [tg EXCEPT !.pc = "idle"]]
            /\ log' = Append(log, [line |-> "Failed to toggle favorite:"])
    /\ UNCHANGED <<now, store, entry, ret, reqs, calls, historyVars>>

\* setItem of the toggle in slot t settles, and setIsFavorite(!isFavorite) of
\* the closure follows
ToggleWrite(t) ==
    LET tg == screen.toggles[t] IN
    /\ screen.name = "detail"
    /\ tg.pc = "setItem"
    /\ store' = SetItem(store, FAVORITES_KEY, tg.blob)
    /\ screen' = [screen EXCEPT !.isFavorite = ~tg.isFavorite,
                                !.toggles[t] = [tg EXCEPT !.pc = "idle", !.blob = <<>>]]
    /\ UNCHANGED <<now, entry, ret, reqs, calls, historyVars, log>>

\* The movie has loaded; the store holds the favorites of earlier sessions:
\* none, the movie of the screen, or another movie
InitDetail ==
    /\ now = StartTime
    /\ HistoryUnused
    /\ \E ids \in {<<>>, <<ScreenMovie>>, <<ScreenMovie + 1>>} :
          store = SetItem(AppStore, FAVORITES_KEY, StringifyMovies(ids))
    /\ entry = [k \in CacheKeys |-> NoEntry]
    /\ ret = NoRet
    /\ reqs = <<>>
    /\ calls = <<>>
    /\ log = <<>>
    /\ screen = [name |-> "detail", isFavorite |-> FALSE, checked |-> FALSE, presses |-> 0,
                 toggles |-> [t \in Togglers |->
                                [pc |-> "idle", isFavorite |-> FALSE, blob |-> <<>>]]]

NextDetail ==
    \/ CheckIfFavorite
    \/ \E t \in Togglers : PressFavorite(t)
    \/ \E t \in Togglers : ToggleRead(t)
    \/ \E t \in Togglers : ToggleWrite(t)

SpecDetail == InitDetail /\ [][NextDetail]_vars

----------------------------------------------------------------------------
(* Claims about SearchHistoryService *)

Dune == <<"D", "u", "n", "e">>
dune == <<"d", "u", "n", "e">>
Arrival == <<"A", "r", "r", "i", "v", "a", "l">>

\* The query strings of a history, in its order
QueriesOf(h) == [i \in 1..Len(h) |-> h[i].query]

\* No two entries of h have the same lowercased query
UniqueLower(h) ==
    \A i, j \in 1..Len(h) :
        ToLowerCase(h[i].query) = ToLowerCase(h[j].query) => i = j

\* C12: starting from an empty store, after any sequence of addToHistory,
\* removeFromHistory and clearHistory calls, overlapping ones included, the
\* persisted history holds at most one entry per lowercased query.
C12_UniquePerLowercase == UniqueLower(Persisted(store))

\* Two overlapping addToHistory calls with the two casings of a title that the
\* persisted history already holds, both suspended at their write
C12_Witness ==
    /\ QueriesOf(Persisted(store)) = <<Dune, Arrival>>
    /\ \E c, d \in DOMAIN tasks :
          /\ tasks[c].pc = "setItem" /\ tasks[c].op = "add" /\ tasks[c].arg = dune
          /\ tasks[d].pc = "setItem" /\ tasks[d].op = "add" /\ tasks[d].arg = Dune

\* The n most recently added of the queries qs, the latest first
MostRecent(qs, n) ==
    LET k == IF Len(qs) < n THEN Len(qs) ELSE n IN
    [i \in 1..k |-> qs[Len(qs) - i + 1]]

\* C13: the persisted history never holds more than 10 items, and after
\* distinct queries were added one after another from an empty store (12 of
\* them, say) it holds exactly the 10 most recently added, the latest first.
C13_CapacityBound ==
    /\ Len(Persisted(store)) <= 10
    /\ added.clean => QueriesOf(Persisted(store)) = MostRecent(added.qs, 10)

\* 12 queries were added: the history holds the 12th down to the 3rd
C13_Witness ==
    /\ added.clean
    /\ Len(added.qs) = 12
    /\ QueriesOf(Persisted(store)) = [i \in 1..10 |-> FillQuery(13 - i)]
    /\ Persisted(store)[1].timestamp > Persisted(store)[10].timestamp

\* h is in descending order of timestamp
Descending(h) == \A i, j \in 1..Len(h) : i < j => h[i].timestamp >= h[j].timestamp

\* The entries of h whose lowercased query is not q lowercased, in their order
Others(h, q) ==
    LET Differs(item) == ToLowerCase(item.query) # ToLowerCase(q) IN SelectSeq(h, Differs)

\* An addToHistory of a query that is not blank returned, and no store call failed
AddReturned == hret.op = "add" /\ ~BlankQuery(hret.arg) /\ ~hret.failed

\* C14: getHistory returns the entries most recent first, and an awaited
\* addToHistory(q) that matches an existing entry case-insensitively removes
\* it and puts one entry with the new casing and the new timestamp in front;
\* adding "Dune", "dune", "Arrival" in that order yields ["Arrival", "dune"].
C14_OrderAndRefresh ==
    /\ hret.op = "get" => Descending(hret.items)
    /\ (hret.op = "get" /\ ~hret.failed)
       => /\ Len(hret.items) = Len(hret.before)
          /\ \A i \in 1..Len(hret.before) :
                \E j \in 1..Len(hret.items) : hret.items[j] = hret.before[i]
    /\ AddReturned
       => /\ Len(hret.after) >= 1
          /\ hret.after[1].query = Trim(hret.arg)
          /\ hret.after[1].timestamp <= now
          /\ \A i \in 1..Len(hret.before) :
                hret.after[1].timestamp >= hret.before[i].timestamp
          /\ Tail(hret.after) = Others(hret.before, Trim(hret.arg))
          /\ Descending(hret.after)
    /\ (AddReturned /\ hret.arg = Dune /\ hret.before = <<>>)
       => QueriesOf(hret.after) = <<Dune>>
    /\ (AddReturned /\ hret.arg = dune /\ QueriesOf(hret.before) = <<Dune>>)
       => QueriesOf(hret.after) = <<dune>>
    /\ (AddReturned /\ hret.arg = Arrival /\ QueriesOf(hret.before) = <<dune>>)
       => QueriesOf(hret.after) = <<Arrival, dune>>

\* getHistory returned ["Arrival", "dune"], the entries written at different times
C14_Witness ==
    /\ hret.op = "get"
    /\ ~hret.failed
    /\ QueriesOf(hret.items) = <<Arrival, dune>>
    /\ hret.items[1].timestamp > hret.items[2].timestamp

\* C15: when the store fails during a history operation no error reaches the
\* caller; a read operation returns an empty list, and a mutating operation
\* leaves the persisted history as it was.
C15_FailOpen ==
    hret.failed
    => /\ ~hret.threw
       /\ hret.op \in {"get", "recent"} => hret.items = <<>> /\ hret.strings = <<>>
       /\ hret.op \in {"add", "remove", "clear"} => ~hret.changed

\* q is empty or holds blanks only
OnlyBlanks(q) == \A i \in 1..Len(q) : q[i] = " "

PaddedDune == <<" ", "D", "u", "n", "e", " ">>

\* C21: addToHistory(query) of an empty or whitespace-only query makes no
\* store call and leaves the persisted history as it was; otherwise the text
\* it stores is the query without its leading and trailing blanks, in the
\* casing it was given.
C21_BlankAddIsNoOp ==
    /\ \A c \in DOMAIN tasks : tasks[c].op = "add" => ~OnlyBlanks(tasks[c].arg)
    /\ (hret.op = "add" /\ OnlyBlanks(hret.arg))
       => /\ ~hret.wrote
          /\ ~hret.changed
          /\ ~hret.failed
          /\ hret.after = hret.before
    /\ (hret.op = "add" /\ ~OnlyBlanks(hret.arg) /\ ~hret.failed)
       => /\ hret.wrote
          /\ hret.after[1].query = Trim(hret.arg)
          /\ hret.after[1].query[1] # " "
          /\ hret.after[1].query[Len(hret.after[1].query)] # " "
          /\ hret.arg = PaddedDune => hret.after[1].query = Dune
          /\ hret.arg = dune => hret.after[1].query = dune

\* addToHistory of a query of blanks returned while the history holds the
\* entry that an addToHistory of " Dune " stored
C21_Witness ==
    /\ hret.op = "add"
    /\ hret.arg = <<" ">>
    /\ QueriesOf(hret.before) = <<Dune>>
    /\ QueriesOf(Persisted(store)) = <<Dune>>

\* Some entry of h has the query q, up to the case of the letters
Matches(h, q) == \E i \in 1..Len(h) : ToLowerCase(h[i].query) = ToLowerCase(q)

\* C22: removeFromHistory(query) removes every entry whose query matches
\* case-insensitively and keeps all other entries in their order; when no
\* entry matches, as on a second application, the entries stay as they are.
C22_RemoveMatching ==
    (hret.op = "remove" /\ ~hret.failed)
    => /\ hret.wrote
       /\ hret.after = Others(hret.before, hret.arg)
       /\ ~Matches(hret.after, hret.arg)
       /\ ~Matches(hret.before, hret.arg) => hret.after = hret.before
       /\ Others(hret.after, hret.arg) = hret.after

\* removeFromHistory("dune") returned: it removed the entry "Dune" and kept
\* "Arrival"
C22_Witness ==
    /\ hret.op = "remove"
    /\ ~hret.failed
    /\ hret.arg = dune
    /\ QueriesOf(hret.before) = <<Arrival, Dune>>
    /\ QueriesOf(hret.after) = <<Arrival>>

\* The first n entries of h, all of h when it has fewer
FirstEntries(h, n) == [i \in 1..(IF n < Len(h) THEN n ELSE Len(h)) |-> h[i]]

\* C23: getRecentSearches(limit) returns the query strings of the first limit
\* entries of getHistory(), in their most-recent-first order, and at most
\* limit strings.
C23_RecentSearches ==
    (hret.op = "recent" /\ ~hret.failed)
    => /\ hret.strings = QueriesOf(FirstEntries(SortDesc(hret.before), hret.limit))
       /\ Len(hret.strings) <= hret.limit
       /\ Descending(FirstEntries(SortDesc(hret.before), hret.limit))

\* getRecentSearches(1) returned the later of two entries
C23_Witness ==
    /\ hret.op = "recent"
    /\ ~hret.failed
    /\ hret.limit = 1
    /\ QueriesOf(hret.before) = <<Arrival, dune>>
    /\ hret.before[1].timestamp > hret.before[2].timestamp
    /\ hret.strings = <<Arrival>>

\* C28 (under SpecOverlap): addToHistory calls that overlap race for the one
\* history blob: the write that reaches the store last replaces it whole, so
\* its query is in front whatever the others wrote, and the final history
\* can lack the query of another call that completed (a lost update).
C28_LastWriteWins ==
    added.qs # <<>>
    => /\ Persisted(store) # <<>>
       /\ Persisted(store)[1].query = added.qs[Len(added.qs)]
       /\ \A i \in 1..Len(Persisted(store)) :
             \E j \in 1..Len(added.qs) : Persisted(store)[i].query = added.qs[j]
       /\ UniqueLower(Persisted(store))

\* addToHistory("Dune") and addToHistory("Arrival") both completed, their
\* writes in that order, and the history holds "Arrival" alone: both calls
\* read the empty history before either wrote
C28_Witness ==
    /\ added.qs = <<Dune, Arrival>>
    /\ InProgress = {}
    /\ QueriesOf(Persisted(store)) = <<Arrival>>


\* The catch block mapped an axios error that carries a response
MappedResponse == screen.name = "catch" /\ screen.error.axios /\ screen.error.response # Absent

\* The statuses handleApiError has a message of its own for, among the 4xx
FixedClientStatuses == {400, 401, 403, 404, 429}

\* The parts of C31 that concern the statuses with a message of their own,
\* the status code, and the failures without response
C31_Common ==
    /\ (MappedResponse /\ screen.error.response[1] \in 400..499)
       => /\ screen.appError.statusCode = screen.error.response
          /\ screen.error.response[1] \in FixedClientStatuses
             => screen.appError.message
                = AppMessage(NumberToString(screen.error.response[1]))
          /\ \A s1 \in FixedClientStatuses :
                screen.error.response[1] # s1
                => screen.appError.message # AppMessage(NumberToString(s1))
    /\ (screen.name = "catch" /\ screen.error.axios /\ screen.error.response = Absent)
       => /\ screen.appError.statusCode = Absent
          /\ IF screen.error.code = "ECONNABORTED"
             THEN /\ screen.appError.isTimeoutError
                  /\ ~screen.appError.isNetworkError
                  /\ screen.appError.message = AppMessage("timeout")
             ELSE /\ screen.appError.isNetworkError
                  /\ ~screen.appError.isTimeoutError
                  /\ screen.appError.message = AppMessage("network")

\* C31, as stated: a response with status s in [400, 499] yields statusCode =
\* s, the message fixed for 400, 401, 403, 404 and 429 and the generic message
\* for every other 4xx status; a failure with no response yields a network
\* error and a timeout a timeout error, both without statusCode.
C31_ErrorMapping ==
    /\ C31_Common
    /\ (/\ MappedResponse
        /\ screen.error.response[1] \in 400..499
        /\ screen.error.response[1] \notin FixedClientStatuses)
       => screen.appError.message = AppMessage("generic")

\* C31, amended: as above, but for every other 4xx status the message is the
\* status_message of the response body when the body has a non-empty one, and
\* the generic message otherwise.
C31_ErrorMappingWithBodyMessage ==
    /\ C31_Common
    /\ (/\ MappedResponse
        /\ screen.error.response[1] \in 400..499
        /\ screen.error.response[1] \notin FixedClientStatuses)
       => screen.appError.message
          = IF screen.error.statusMessage = Absent THEN AppMessage("generic")
            ELSE screen.error.statusMessage

\* A 422 response whose body carries a status_message was mapped: the AppError
\* has statusCode 422 and the message of the body
C31_Witness ==
    /\ MappedResponse
    /\ screen.error.response = <<422>>
    /\ screen.error.statusMessage = InvalidPage
    /\ screen.appError.statusCode = <<422>>
    /\ screen.appError.message = InvalidPage


----------------------------------------------------------------------------
(* Claims about MoviesScreen *)

\* C32, as stated: the movie screen calls addToHistory(q) only after the
\* search request for q has succeeded, so that an entry is created or refreshed
\* only on a successful search commit.
C32_AddOnlyAfterSuccess ==
    (screen.name = "movies" /\ screen.lastAdd # NoAdd) => screen.lastAdd.succeeded

\* C32, amended: loadMovies calls addToHistory(q) only after its search
\* request for q has succeeded, and a load that ends in an error writes nothing
\* to the store; the tap on a recent search is the other call, made before the
\* search it starts.
C32_LoadAddsOnlyAfterSuccess ==
    /\ []((screen.name = "movies" /\ screen.lastAdd.by = "loadMovies")
          => screen.lastAdd.succeeded)
    /\ [][log' # log => store' = store]_vars

\* The recent search Dune was tapped and is the newest entry of the history,
\* and the search for Dune has ended in an error
C32_Witness ==
    /\ screen.name = "movies"
    /\ screen.lastAdd = [by |-> "onPress", query |-> <<"D", "u", "n", "e">>,
                         succeeded |-> FALSE]
    /\ Persisted(store) # <<>>
    /\ Persisted(store)[1].query = <<"D", "u", "n", "e">>
    /\ log # <<>>
    /\ log[1].of = Selection(<<"D", "u", "n", "e">>, Absent)
    /\ screen.error # <<>>
    /\ screen.debouncedQuery = <<"D", "u", "n", "e">>


\* No load of the screen is in flight and the debounce has fired
AllSettled ==
    /\ screen.name = "movies"
    /\ \A l \in DOMAIN screen.loads : screen.loads[l].pc = "idle"
    /\ screen.more.pc = "idle"
    /\ screen.query = screen.debouncedQuery

\* C38: once all the loads in flight have settled, the movies shown are
\* results of the latest debounced query / selected genre, never those of an
\* earlier selection whose response arrived later.
C38_ShowsLatestSelection ==
    AllSettled
    => \A i \in DOMAIN screen.movies :
          screen.movies[i].of = Selection(screen.debouncedQuery, screen.selectedGenre)


----------------------------------------------------------------------------
(* Claims about the reporting of failures *)

\* The attempts of q that ended in an error
FailedAttempts(q) == {i \in 1..Len(q.outcomes) : FailedAttempt(q, i)}

\* C33, as stated: every failed attempt of a logical request, each retried
\* one as well as the terminal one, is reported once to the log: when the first
\* call has ended, the log has a line for each attempt of it that failed.
C33_EveryAttemptLogged ==
    \A c \in DOMAIN calls :
        (calls[c].seq = 1 /\ calls[c].pc \in {"returned", "threw"})
        => Len(log) >= Cardinality(FailedAttempts(reqs[c]))

\* C33, amended: every logical request that ends in an error is reported once
\* to the log, by the catch block of the Query Function when the terminal
\* error reaches it; an attempt that is retried is not reported by itself; and
\* the reporting does not alter the outcome: the error of the last attempt is
\* the one the caller gets.
C33_TerminalFailureLoggedOnce ==
    [][\A c \in DOMAIN calls :
          IF calls[c].pc = "fetching" /\ calls'[c].pc = "threw"
          THEN /\ log' = Append(log, LogLine(c))
               /\ reqs[c].pc = "rejected"
                  => /\ calls'[c].error = reqs[c].status
                     /\ reqs[c].status = reqs[c].outcomes[Len(reqs[c].outcomes)]
          ELSE log' = log]_vars

\* A call has thrown after three failed attempts, and the log has one line
C33_Witness ==
    /\ Len(calls) = 1
    /\ calls[1].pc = "threw"
    /\ Cardinality(FailedAttempts(reqs[1])) = 3
    /\ log = <<[line |-> "Error fetching", fn |-> calls[1].fn, key |-> calls[1].key]>>


----------------------------------------------------------------------------
(* Claims about the keys of CacheService *)

\* C34: cache keys are isolated from each other, whatever strings they are:
\* set(k2, ...) and remove(k2) change neither get(k1) nor isValid(k1).  So a
\* key that was set and not removed since reads as what it was set to while
\* its duration lasts, and a key never set or removed since reads as absent,
\* whatever was done with the other keys.
C34_KeysIsolated ==
    \A k \in DOMAIN entry :
        /\ (entry[k].has /\ now < entry[k].storedAt + entry[k].ttl)
           => /\ CacheService_get(store, k, now, "none").val = entry[k].payload
              /\ CacheService_isValid(store, k, now, FALSE)
        /\ ~entry[k].has
           => /\ CacheService_get(store, k, now, "none").val = JNull
              /\ ~CacheService_isValid(store, k, now, FALSE)


----------------------------------------------------------------------------
(* Claims about overlapping calls of a Query Function *)

\* The call in slot c found no entry for its key
ColdStart(c) == calls[c].pc # "idle" /\ ~calls[c].hadEntry

\* C35: Query Functions do not coalesce requests in flight.  Calls of the same
\* function for the same key that read the cache before any of them writes it
\* all miss, and each issues its own request; and every write of a call puts
\* its own result in the cache, so that the cache finally holds the result of
\* the call whose write reaches the store last.
C35_NoCoalescing ==
    /\ [](\A c \in DOMAIN calls :
            ColdStart(c) => /\ calls[c].seq >= 1
                            /\ reqs[c].attempts >= 1
                            /\ Len(reqs[c].sent) = reqs[c].attempts)
    /\ [][\A c \in DOMAIN calls :
            (calls[c].pc = "fetching" /\ calls'[c].pc = "returned")
            => /\ CacheService_get(store', calls[c].key, now, "none").val = calls'[c].result
               /\ entry'[calls[c].key].payload = calls'[c].result]_vars

\* Two calls overlapped on the cold cache, each made its own request, the two
\* got different genre lists, and the cache holds the list of the second call
C35_Witness ==
    /\ DOMAIN calls = {1, 2}
    /\ \A c \in {1, 2} : ColdStart(c) /\ calls[c].pc = "returned" /\ reqs[c].attempts = 1
    /\ calls[1].result = JArr(3)
    /\ calls[2].result = JArr(2)
    /\ CacheService_get(store, calls[1].key, now, "none").val = JArr(2)


----------------------------------------------------------------------------
(* Claims about requests of the tmdb client in flight together *)

\* The retries request q has had for its own failures: the attempts, among its
\* first MAX_RETRIES, that ended in a retry-eligible error
OwnRetries(q) ==
    Cardinality({i \in 1..Len(q.outcomes) : i <= MAX_RETRIES /\ EligibleFailure(q.outcomes[i])})

\* C36: retry budgets are independent per logical request.  While a request
\* is unsettled or rejected, its counter is the number of retries its own
\* failures caused, whatever the other requests in flight did, and a request
\* rejected with a retry-eligible error has had its full two retries.
C36_IndependentBudgets ==
    \A r \in DOMAIN reqs :
        /\ reqs[r].pc \in {"inflight", "backoff", "rejected"}
           => /\ (IF reqs[r].retryCount = UndefinedCount THEN 0 ELSE reqs[r].retryCount)
                 = OwnRetries(reqs[r])
              /\ Len(reqs[r].waits) = OwnRetries(reqs[r])
              /\ Len(reqs[r].sent) = reqs[r].attempts
        /\ (reqs[r].pc = "rejected" /\ EligibleFailure(reqs[r].status))
           => /\ reqs[r].attempts = MAX_RETRIES + 1
              /\ OwnRetries(reqs[r]) = MAX_RETRIES

\* Two requests are in flight together; the first has used both its retries,
\* the second is waiting for its first retry
C36_Witness ==
    /\ DOMAIN reqs = {1, 2}
    /\ reqs[1].pc = "inflight" /\ reqs[1].retryCount = 2
    /\ reqs[2].pc = "backoff" /\ reqs[2].retryCount = 1
    /\ reqs[1].config # reqs[2].config


----------------------------------------------------------------------------
(* Claims about mixed sequences of attempt outcomes *)

\* C37: whatever the outcomes of the attempts of a request, the outcome the
\* caller gets is that of the last attempt made: a 4xx received by a first
\* attempt or by a retry ends the request at once with that error, and no
\* request makes more than 3 attempts.
C37_LastAttemptSurfaces ==
    \A r \in DOMAIN reqs :
        LET q == reqs[r]
            n == Len(q.outcomes)
        IN
        /\ q.attempts <= MAX_RETRIES + 1
        /\ q.pc \in {"resolved", "rejected"}
           => /\ n = q.attempts
              /\ q.status = q.outcomes[n]
              /\ (q.pc = "resolved") = (q.outcomes[n] \in 200..299)
        /\ \A i \in 1..n :
              q.outcomes[i] \in 400..499
              => /\ i = n
                 /\ q.pc = "rejected"
                 /\ q.status = q.outcomes[i]
                 /\ q.attempts = i
                 /\ Len(q.waits) = i - 1

\* A request failed with 503, was retried, and the retry received a 404: the
\* request is rejected with 404 after two attempts, its counter at 1
C37_Witness ==
    \E r \in DOMAIN reqs :
        /\ reqs[r].outcomes = <<503, 404>>
        /\ reqs[r].pc = "rejected"
        /\ reqs[r].status = 404
        /\ reqs[r].retryCount = 1
        /\ reqs[r].attempts = 2


----------------------------------------------------------------------------
(* Claims about the favorites of MovieDetailsScreen *)

\* C39: the persisted favorites list never contains two entries with the same
\* movie id, after any sequence of presses of the favorite button, presses
\* made before an earlier toggle has finished included.
C39_NoDuplicateFavorites ==
    LET parsed == ParseMovies(GetItem(store, FAVORITES_KEY)) IN
    (screen.name = "detail" /\ parsed.ok)
    => \A i, j \in DOMAIN parsed.ids : parsed.ids[i] = parsed.ids[j] => i = j

====
